---- MODULE Spec2Model ----
(***************************************************************************)
(* Topology Analysis Engine (src/src/lib/topology-analysis.ts).            *)
(*                                                                         *)
(* The engine is a set of pure functions over an adjacency model, a JS     *)
(* Map<string, Set<string>>.  Map and Set iterate in insertion order, and  *)
(* the traversals (BFS, DFS) depend on that order, so the model keeps it:  *)
(* an adjacency model is a record                                          *)
(*     [keys |-> sequence of node ids, in Map insertion order,             *)
(*      nbrs |-> function key -> duplicate-free sequence of neighbour ids, *)
(*               in Set insertion order].                                  *)
(* Node ids are opaque strings in the code; here they are small integers   *)
(* that are only ever compared for equality.                               *)
(*                                                                         *)
(* JS numbers that can be fractional (centralities, coefficients,          *)
(* edgeCount, avgDegree) are exact rationals <<num, den>> in lowest terms:  *)
(* the rounding of IEEE doubles is not modelled.                           *)
(***************************************************************************)
EXTENDS Integers, Sequences, FiniteSets, TLC

VARIABLES adj, last

vars == <<adj, last>>

(***************************************************************************)
(* Bounds of the model.                                                    *)
(***************************************************************************)
MaxNodes == 4
MaxEdges == 4
MaxAnyEdges == 2
\* the largest topN passed to identifyBottlenecks
MaxTopN == 3
\* the sizes of the inputs of exportToGraphML
MaxStrLen == 3
MaxXmlNodes == 2
MaxXmlEdges == 2

\* The value JS calls Infinity: larger than every distance or degree.
Infinity == 1000000

Ids == 1..MaxNodes

Range(s) == {s[i] : i \in DOMAIN s}

Max(a, b) == IF a >= b THEN a ELSE b
Min(a, b) == IF a <= b THEN a ELSE b

(***************************************************************************)
(* Rational arithmetic standing for JS number arithmetic.                  *)
(***************************************************************************)
RECURSIVE GCD(_, _)
GCD(a, b) == IF b = 0 THEN a ELSE GCD(b, a % b)

Abs(x) == IF x < 0 THEN -x ELSE x

\* n / d for integers n, d with d > 0
Frac(n, d) == LET g == GCD(Abs(n), d) IN <<n \div g, d \div g>>

Zero == <<0, 1>>
One == <<1, 1>>
RAdd(p, q) == Frac(p[1] * q[2] + q[1] * p[2], p[2] * q[2])
RMul(p, q) == Frac(p[1] * q[1], p[2] * q[2])
RHalf(p) == Frac(p[1], 2 * p[2])
RLeq(p, q) == p[1] * q[2] <= q[1] * p[2]
RLess(p, q) == p[1] * q[2] < q[1] * p[2]

(***************************************************************************)
(* Map and Set primitives.                                                 *)
(***************************************************************************)
EmptyAdj == [keys |-> <<>>, nbrs |-> <<>>]

\* adj.has(k)
Has(a, k) == k \in DOMAIN a.nbrs

\* mutant of SetAdd: a member already present is added again
SetAdd_KeepsDuplicates(s, x) == Append(s, x)

\* Set.prototype.add: appends unless already a member
SetAdd(s, x) == IF x \in Range(s) THEN s ELSE Append(s, x)

\* adj.set(id, new Set()): a new key goes last, an existing key keeps its place
MapSetEmpty(a, id) ==
    [keys |-> IF Has(a, id) THEN a.keys ELSE Append(a.keys, id),
     nbrs |-> [k \in DOMAIN a.nbrs \cup {id} |-> IF k = id THEN <<>> ELSE a.nbrs[k]]]

\* mutant of GetAdd: an unknown source id becomes a key
GetAdd_CreatesKey(a, x, y) ==
    IF Has(a, x) THEN [a EXCEPT !.nbrs[x] = SetAdd(@, y)]
    ELSE [keys |-> Append(a.keys, x),
          nbrs |-> [k \in DOMAIN a.nbrs \cup {x} |-> IF k = x THEN <<y>> ELSE a.nbrs[k]]]

\* adj.get(x)?.add(y)
GetAdd(a, x, y) ==
    IF Has(a, x) THEN [a EXCEPT !.nbrs[x] = SetAdd(@, y)] ELSE a

\* Map.prototype.set on a Map whose order is never read: a new key is added
MapPut(m, k, v) == [x \in DOMAIN m \cup {k} |-> IF x = k THEN v ELSE m[x]]

\* neighbors.size
Size(a, k) == Len(a.nbrs[k])

\* the members of adj.get(k), as a set
Nbrs(a, k) == Range(a.nbrs[k])

Keys(a) == Range(a.keys)

(***************************************************************************)
(* buildAdjacencyList                                                      *)
(***************************************************************************)
RECURSIVE SeedNodes(_, _, _)
SeedNodes(a, nodes, i) ==
    IF i > Len(nodes) THEN a
    ELSE SeedNodes(MapSetEmpty(a, nodes[i]), nodes, i + 1)

\* mutant of AddEdges: the edge is added to its source only
RECURSIVE AddEdges_Directed(_, _, _)
AddEdges_Directed(a, edges, i) ==
    IF i > Len(edges) THEN a
    ELSE AddEdges_Directed(GetAdd(a, edges[i][1], edges[i][2]), edges, i + 1)

RECURSIVE AddEdges(_, _, _)
AddEdges(a, edges, i) ==
    IF i > Len(edges) THEN a
    ELSE AddEdges(GetAdd(GetAdd(a, edges[i][1], edges[i][2]),
                         edges[i][2], edges[i][1]),
                  edges, i + 1)

buildAdjacencyList(nodes, edges) ==
    AddEdges(SeedNodes(EmptyAdj, nodes, 1), edges, 1)

(***************************************************************************)
(* calculateDegreeDistribution: a Map from degree to count, its keys in    *)
(* insertion order                                                         *)
(***************************************************************************)
\* mutant of DegreeLoop: the count of a degree already seen is set to 1
RECURSIVE DegreeLoop_Overwrite(_, _, _)
DegreeLoop_Overwrite(a, i, distribution) ==
    IF i > Len(a.keys) THEN distribution
    ELSE LET degree == Size(a, a.keys[i])
         IN  DegreeLoop_Overwrite(a, i + 1,
                [keys |-> SetAdd(distribution.keys, degree),
                 count |-> [d \in DOMAIN distribution.count \cup {degree} |->
                               IF d = degree THEN 1 ELSE distribution.count[d]]])

\* the loop over adj.values(): distribution.set(degree, (get(degree) ?? 0) + 1)
RECURSIVE DegreeLoop(_, _, _)
DegreeLoop(a, i, distribution) ==
    IF i > Len(a.keys) THEN distribution
    ELSE LET degree == Size(a, a.keys[i])
             old == IF degree \in DOMAIN distribution.count
                    THEN distribution.count[degree] ELSE 0
         IN  DegreeLoop(a, i + 1,
                [keys |-> SetAdd(distribution.keys, degree),
                 count |-> [d \in DOMAIN distribution.count \cup {degree} |->
                               IF d = degree THEN old + 1 ELSE distribution.count[d]]])

calculateDegreeDistribution(a) == DegreeLoop(a, 1, [keys |-> <<>>, count |-> <<>>])

(***************************************************************************)
(* calculateDegreeCentrality                                               *)
(***************************************************************************)
\* mutant of calculateDegreeCentrality: divides by n, not n - 1
calculateDegreeCentrality_OverN(a) ==
    LET n == Len(a.keys)
    IN  [k \in Keys(a) |-> IF n > 0 THEN Frac(Size(a, k), n) ELSE Zero]

calculateDegreeCentrality(a) ==
    LET n == Len(a.keys)
        maxDegree == n - 1
    IN  [k \in Keys(a) |-> IF maxDegree > 0 THEN Frac(Size(a, k), maxDegree) ELSE Zero]

(***************************************************************************)
(* calculateClusteringCoefficient                                          *)
(***************************************************************************)
\* the double loop over i < j of neighborList, counting adjacent pairs
ActualEdges(a, neighborList) ==
    Cardinality({p \in (DOMAIN neighborList) \X (DOMAIN neighborList) :
                    /\ p[1] < p[2]
                    /\ Has(a, neighborList[p[1]])
                    /\ neighborList[p[2]] \in Nbrs(a, neighborList[p[1]])})

\* mutant of calculateClusteringCoefficient: divides by the ordered pairs
calculateClusteringCoefficient_OrderedPairs(a, nodeId) ==
    IF ~Has(a, nodeId) \/ Size(a, nodeId) < 2 THEN Zero
    ELSE LET neighborList == a.nbrs[nodeId]
             k == Len(neighborList)
         IN  Frac(ActualEdges(a, neighborList), k * (k - 1))

calculateClusteringCoefficient(a, nodeId) ==
    IF ~Has(a, nodeId) \/ Size(a, nodeId) < 2 THEN Zero
    ELSE LET neighborList == a.nbrs[nodeId]
             k == Len(neighborList)
             possibleEdges == (k * (k - 1)) \div 2
         IN  Frac(ActualEdges(a, neighborList), possibleEdges)

(***************************************************************************)
(* calculateGlobalClusteringCoefficient                                    *)
(***************************************************************************)
\* mutant of GlobalLoop: nodes of degree < 2 count as coefficient 0
RECURSIVE GlobalLoop_CountsAll(_, _, _, _)
GlobalLoop_CountsAll(a, i, sum, count) ==
    IF i > Len(a.keys) THEN [sum |-> sum, count |-> count]
    ELSE GlobalLoop_CountsAll(a, i + 1,
                              RAdd(sum, calculateClusteringCoefficient(a, a.keys[i])),
                              count + 1)

\* the loop over adj: [sum, count] after the first i keys
RECURSIVE GlobalLoop(_, _, _, _)
GlobalLoop(a, i, sum, count) ==
    IF i > Len(a.keys) THEN [sum |-> sum, count |-> count]
    ELSE IF Size(a, a.keys[i]) >= 2
         THEN GlobalLoop(a, i + 1,
                         RAdd(sum, calculateClusteringCoefficient(a, a.keys[i])),
                         count + 1)
         ELSE GlobalLoop(a, i + 1, sum, count)

calculateGlobalClusteringCoefficient(a) ==
    LET r == GlobalLoop(a, 1, Zero, 0)
    IN  IF r.count > 0 THEN RMul(r.sum, Frac(1, r.count)) ELSE Zero

(***************************************************************************)
(* findShortestPath.  null is the empty sequence: a path is never empty.   *)
(***************************************************************************)
Null == <<>>

\* mutant of PathScan: the queue keeps only the last hop of each path
RECURSIVE PathScan_LastHop(_, _, _, _, _, _)
PathScan_LastHop(neighbors, i, target, path, visited, queue) ==
    IF i > Len(neighbors)
    THEN [done |-> FALSE, path |-> <<>>, visited |-> visited, queue |-> queue]
    ELSE LET neighbor == neighbors[i] IN
         IF neighbor = target
         THEN [done |-> TRUE, path |-> Append(path, neighbor),
               visited |-> visited, queue |-> queue]
         ELSE IF neighbor \notin visited
              THEN PathScan_LastHop(neighbors, i + 1, target, path,
                                    visited \cup {neighbor},
                                    Append(queue, <<path[Len(path)], neighbor>>))
              ELSE PathScan_LastHop(neighbors, i + 1, target, path, visited, queue)

\* the for loop over the neighbours of the dequeued node
RECURSIVE PathScan(_, _, _, _, _, _)
PathScan(neighbors, i, target, path, visited, queue) ==
    IF i > Len(neighbors)
    THEN [done |-> FALSE, path |-> Null, visited |-> visited, queue |-> queue]
    ELSE LET neighbor == neighbors[i] IN
         IF neighbor = target
         THEN [done |-> TRUE, path |-> Append(path, neighbor),
               visited |-> visited, queue |-> queue]
         ELSE IF neighbor \notin visited
              THEN PathScan(neighbors, i + 1, target, path,
                            visited \cup {neighbor},
                            Append(queue, Append(path, neighbor)))
              ELSE PathScan(neighbors, i + 1, target, path, visited, queue)

\* the while loop over the queue of partial paths
RECURSIVE PathLoop(_, _, _, _)
PathLoop(a, target, visited, queue) ==
    IF queue = <<>> THEN Null
    ELSE LET path == Head(queue)
             current == path[Len(path)]
         IN  IF ~Has(a, current) THEN PathLoop(a, target, visited, Tail(queue))
             ELSE LET r == PathScan(a.nbrs[current], 1, target, path,
                                    visited, Tail(queue))
                  IN  IF r.done THEN r.path
                      ELSE PathLoop(a, target, r.visited, r.queue)

findShortestPath(a, source, target) ==
    IF source = target THEN <<source>>
    ELSE IF ~Has(a, source) \/ ~Has(a, target) THEN Null
    ELSE PathLoop(a, target, {source}, <<<<source>>>>)

(***************************************************************************)
(* bfsDistances                                                            *)
(***************************************************************************)
RECURSIVE DistScan(_, _, _, _)
DistScan(neighbors, i, currentDist, st) ==
    IF i > Len(neighbors) THEN st
    ELSE LET neighbor == neighbors[i] IN
         IF neighbor \notin st.visited
         THEN DistScan(neighbors, i + 1, currentDist,
                       [visited |-> st.visited \cup {neighbor},
                        distances |-> MapPut(st.distances, neighbor, currentDist + 1),
                        queue |-> Append(st.queue, neighbor)])
         ELSE DistScan(neighbors, i + 1, currentDist, st)

RECURSIVE DistLoop(_, _)
DistLoop(a, st) ==
    IF st.queue = <<>> THEN st.distances
    ELSE LET current == Head(st.queue)
             rest == [st EXCEPT !.queue = Tail(@)]
         IN  IF ~Has(a, current) THEN DistLoop(a, rest)
             ELSE DistLoop(a, DistScan(a.nbrs[current], 1,
                                       st.distances[current], rest))

bfsDistances(a, source) ==
    DistLoop(a, [visited |-> {source},
                 distances |-> [k \in Keys(a) |-> IF k = source THEN 0 ELSE Infinity],
                 queue |-> <<source>>])

(***************************************************************************)
(* calculateNetworkDiameter                                                *)
(***************************************************************************)
\* the inner loop over distances.values(): the first Infinity returns at
\* once, otherwise the running maximum is raised
DiameterFold(distances, maxDistance) ==
    IF \E k \in DOMAIN distances : distances[k] = Infinity
    THEN [inf |-> TRUE, maxDistance |-> maxDistance]
    ELSE [inf |-> FALSE,
          maxDistance |-> CHOOSE m \in {maxDistance} \cup {distances[k] : k \in DOMAIN distances} :
                            /\ m >= maxDistance
                            /\ \A k \in DOMAIN distances : m >= distances[k]]

\* mutant of DiameterLoop: distances are taken from the first node only
DiameterLoop_FirstSource(a, i, maxDistance) ==
    LET r == DiameterFold(bfsDistances(a, a.keys[1]), maxDistance)
    IN  IF r.inf THEN Infinity ELSE r.maxDistance

RECURSIVE DiameterLoop(_, _, _)
DiameterLoop(a, i, maxDistance) ==
    IF i > Len(a.keys) THEN maxDistance
    ELSE LET r == DiameterFold(bfsDistances(a, a.keys[i]), maxDistance)
         IN  IF r.inf THEN Infinity ELSE DiameterLoop(a, i + 1, r.maxDistance)

calculateNetworkDiameter(a) ==
    IF Len(a.keys) <= 1 THEN 0 ELSE DiameterLoop(a, 1, 0)

(***************************************************************************)
(* isGraphConnected                                                        *)
(***************************************************************************)
RECURSIVE ConnScan(_, _, _)
ConnScan(neighbors, i, st) ==
    IF i > Len(neighbors) THEN st
    ELSE IF neighbors[i] \notin st.visited
         THEN ConnScan(neighbors, i + 1,
                       [visited |-> st.visited \cup {neighbors[i]},
                        queue |-> Append(st.queue, neighbors[i])])
         ELSE ConnScan(neighbors, i + 1, st)

\* mutant of ConnLoop: only the first node's neighbours are visited
ConnLoop_OneLevel(a, st) ==
    IF st.queue = <<>> THEN st.visited
    ELSE LET current == Head(st.queue)
         IN  IF Has(a, current) THEN ConnScan(a.nbrs[current], 1, st).visited
             ELSE st.visited

RECURSIVE ConnLoop(_, _)
ConnLoop(a, st) ==
    IF st.queue = <<>> THEN st.visited
    ELSE LET current == Head(st.queue)
             rest == [st EXCEPT !.queue = Tail(@)]
         IN  IF Has(a, current) THEN ConnLoop(a, ConnScan(a.nbrs[current], 1, rest))
             ELSE ConnLoop(a, rest)

\* mutant of isGraphConnected: one node may be missing from visited
isGraphConnected_OffByOne(a) ==
    IF Len(a.keys) = 0 THEN TRUE
    ELSE Cardinality(ConnLoop(a, [visited |-> {a.keys[1]}, queue |-> <<a.keys[1]>>]))
            >= Len(a.keys) - 1

isGraphConnected(a) ==
    IF Len(a.keys) = 0 THEN TRUE
    ELSE Cardinality(ConnLoop(a, [visited |-> {a.keys[1]}, queue |-> <<a.keys[1]>>]))
            = Len(a.keys)

(***************************************************************************)
(* countEdges and getNetworkSummary                                        *)
(***************************************************************************)
\* the sum of neighbors.size over the first i values of adj
RECURSIVE TotalDegree(_, _)
TotalDegree(a, i) ==
    IF i = 0 THEN 0 ELSE TotalDegree(a, i - 1) + Size(a, a.keys[i])

\* mutant of countEdges: the total is not halved
countEdges_NoHalving(a) == Frac(TotalDegree(a, Len(a.keys)), 1)

countEdges(a) == Frac(TotalDegree(a, Len(a.keys)), 2)

\* Math.max / Math.min folded over the degrees, from 0 and from Infinity
RECURSIVE MaxDegree(_, _)
MaxDegree(a, i) ==
    IF i = 0 THEN 0 ELSE Max(MaxDegree(a, i - 1), Size(a, a.keys[i]))

RECURSIVE MinDegree(_, _)
MinDegree(a, i) ==
    IF i = 0 THEN Infinity ELSE Min(MinDegree(a, i - 1), Size(a, a.keys[i]))

\* mutant of getNetworkSummary: no early return for nodeCount === 0, so
\* avgDegree is 0 / 0 (written <<0, 0>>)
getNetworkSummary_NoEmptyCase(a) ==
    LET nodeCount == Len(a.keys)
        minDegree == MinDegree(a, nodeCount)
    IN  [nodeCount |-> nodeCount,
         edgeCount |-> countEdges(a),
         avgDegree |-> IF nodeCount = 0 THEN <<0, 0>>
                       ELSE Frac(TotalDegree(a, nodeCount), nodeCount),
         maxDegree |-> MaxDegree(a, nodeCount),
         minDegree |-> IF minDegree = Infinity THEN 0 ELSE minDegree,
         diameter |-> calculateNetworkDiameter(a),
         globalClusteringCoefficient |-> calculateGlobalClusteringCoefficient(a),
         isConnected |-> isGraphConnected(a)]

getNetworkSummary(a) ==
    LET nodeCount == Len(a.keys)
        edgeCount == countEdges(a)
    IN  IF nodeCount = 0
        THEN [nodeCount |-> 0, edgeCount |-> Zero, avgDegree |-> Zero,
              maxDegree |-> 0, minDegree |-> 0, diameter |-> 0,
              globalClusteringCoefficient |-> Zero, isConnected |-> TRUE]
        ELSE LET totalDegree == TotalDegree(a, nodeCount)
                 maxDegree == MaxDegree(a, nodeCount)
                 minDegree == MinDegree(a, nodeCount)
                 connected == isGraphConnected(a)
             IN  [nodeCount |-> nodeCount,
                  edgeCount |-> edgeCount,
                  avgDegree |-> Frac(totalDegree, nodeCount),
                  maxDegree |-> maxDegree,
                  minDegree |-> IF minDegree = Infinity THEN 0 ELSE minDegree,
                  diameter |-> calculateNetworkDiameter(a),
                  globalClusteringCoefficient |-> calculateGlobalClusteringCoefficient(a),
                  isConnected |-> connected]

(***************************************************************************)
(* calculateBetweennessCentrality (Brandes)                                *)
(***************************************************************************)
\* mutant of BrandesScan: sigma[w] is set to sigma[v], not raised by it
RECURSIVE BrandesScan_SigmaOverwrite(_, _, _, _)
BrandesScan_SigmaOverwrite(neighbors, i, v, st) ==
    IF i > Len(neighbors) THEN st
    ELSE LET w == neighbors[i]
             s1 == IF w \in DOMAIN st.dist /\ st.dist[w] < 0
                   THEN [st EXCEPT !.queue = Append(@, w),
                                   !.dist[w] = st.dist[v] + 1]
                   ELSE st
             s2 == IF w \in DOMAIN s1.dist /\ s1.dist[w] = s1.dist[v] + 1
                   THEN [s1 EXCEPT !.sigma[w] = s1.sigma[v],
                                   !.predecessors[w] = Append(@, v)]
                   ELSE s1
         IN  BrandesScan_SigmaOverwrite(neighbors, i + 1, v, s2)

\* the for loop over the neighbours w of the dequeued node v
RECURSIVE BrandesScan(_, _, _, _)
BrandesScan(neighbors, i, v, st) ==
    IF i > Len(neighbors) THEN st
    ELSE LET w == neighbors[i]
             \* first time finding w?
             s1 == IF w \in DOMAIN st.dist /\ st.dist[w] < 0
                   THEN [st EXCEPT !.queue = Append(@, w),
                                   !.dist[w] = st.dist[v] + 1]
                   ELSE st
             \* shortest path to w via v?
             s2 == IF w \in DOMAIN s1.dist /\ s1.dist[w] = s1.dist[v] + 1
                   THEN [s1 EXCEPT !.sigma[w] = @ + s1.sigma[v],
                                   !.predecessors[w] = Append(@, v)]
                   ELSE s1
         IN  BrandesScan(neighbors, i + 1, v, s2)

\* the while loop over the BFS queue
RECURSIVE BrandesBFS(_, _)
BrandesBFS(a, st) ==
    IF st.queue = <<>> THEN st
    ELSE LET v == Head(st.queue)
             popped == [st EXCEPT !.queue = Tail(@), !.stack = Append(@, v)]
         IN  IF ~Has(a, v) THEN BrandesBFS(a, popped)
             ELSE BrandesBFS(a, BrandesScan(a.nbrs[v], 1, v, popped))

\* the single-source shortest-path pass from source
SingleSource(a, source) ==
    BrandesBFS(a, [stack |-> <<>>,
                   predecessors |-> [k \in Keys(a) |-> <<>>],
                   sigma |-> [k \in Keys(a) |-> IF k = source THEN 1 ELSE 0],
                   dist |-> [k \in Keys(a) |-> IF k = source THEN 0 ELSE -1],
                   queue |-> <<source>>])

\* mutant of DeltaScan: the contribution lacks the "1 +" of the pair (v, w)
RECURSIVE DeltaScan_NoDirect(_, _, _, _, _)
DeltaScan_NoDirect(preds, i, w, sigma, delta) ==
    IF i > Len(preds) THEN delta
    ELSE LET v == preds[i]
             contribution == RMul(Frac(sigma[v], sigma[w]), delta[w])
         IN  DeltaScan_NoDirect(preds, i + 1, w, sigma,
                                [delta EXCEPT ![v] = RAdd(@, contribution)])

\* the for loop over the predecessors v of the popped node w
RECURSIVE DeltaScan(_, _, _, _, _)
DeltaScan(preds, i, w, sigma, delta) ==
    IF i > Len(preds) THEN delta
    ELSE LET v == preds[i]
             contribution == RMul(Frac(sigma[v], sigma[w]), RAdd(One, delta[w]))
         IN  DeltaScan(preds, i + 1, w, sigma,
                       [delta EXCEPT ![v] = RAdd(@, contribution)])

\* the accumulation phase: pops the stack from its top
RECURSIVE Accumulate(_, _, _, _, _)
Accumulate(stack, ss, source, delta, bc) ==
    IF stack = <<>> THEN bc
    ELSE LET w == stack[Len(stack)]
             d2 == DeltaScan(ss.predecessors[w], 1, w, ss.sigma, delta)
         IN  Accumulate(SubSeq(stack, 1, Len(stack) - 1), ss, source, d2,
                        IF w # source THEN [bc EXCEPT ![w] = RAdd(@, d2[w])] ELSE bc)

\* the loop over the sources, in key order
RECURSIVE BrandesSources(_, _, _)
BrandesSources(a, i, bc) ==
    IF i > Len(a.keys) THEN bc
    ELSE LET source == a.keys[i]
             ss == SingleSource(a, source)
         IN  BrandesSources(a, i + 1,
                            Accumulate(ss.stack, ss, source,
                                       [k \in Keys(a) |-> Zero], bc))

\* mutant of calculateBetweennessCentrality: the totals are not halved
calculateBetweennessCentrality_NoHalving(a) ==
    BrandesSources(a, 1, [k \in Keys(a) |-> Zero])

calculateBetweennessCentrality(a) ==
    LET bc == BrandesSources(a, 1, [k \in Keys(a) |-> Zero])
    IN  [k \in Keys(a) |-> RHalf(bc[k])]

(***************************************************************************)
(* identifyBottlenecks                                                     *)
(***************************************************************************)
\* mutant of SortedInsert: the comparator is a[1] - b[1], ascending
SortedInsert_Ascending(sorted, e) ==
    LET before == {j \in 1..Len(sorted) : RLeq(sorted[j][2], e[2])}
        n == Cardinality(before)
    IN  SubSeq(sorted, 1, n) \o <<e>> \o SubSeq(sorted, n + 1, Len(sorted))

\* mutant of SortedInsert: the entry goes in front of the entries of equal
\* score, as an unstable sort may place it
SortedInsert_BeforeEquals(sorted, e) ==
    LET before == {j \in 1..Len(sorted) : RLess(e[2], sorted[j][2])}
        n == Cardinality(before)
    IN  SubSeq(sorted, 1, n) \o <<e>> \o SubSeq(sorted, n + 1, Len(sorted))

\* one step of the stable sort by (a, b) => b[1] - a[1]: the entry goes
\* behind every entry whose score is not smaller
SortedInsert(sorted, e) ==
    LET before == {j \in 1..Len(sorted) : RLeq(e[2], sorted[j][2])}
        n == Cardinality(before)
    IN  SubSeq(sorted, 1, n) \o <<e>> \o SubSeq(sorted, n + 1, Len(sorted))

\* Array.prototype.sort over the entries, taken in their order
RECURSIVE SortEntries(_, _, _)
SortEntries(entries, i, sorted) ==
    IF i > Len(entries) THEN sorted
    ELSE SortEntries(entries, i + 1, SortedInsert(sorted, entries[i]))

\* mutant of Slice: the slice begins behind the first entry
Slice_SkipFirst(s, topN) == SubSeq(s, 2, Min(topN + 1, Len(s)))

\* sorted.slice(0, topN) for an integer topN >= 0
Slice(s, topN) == SubSeq(s, 1, Min(topN, Len(s)))

\* the two statements behind const bc: bc.entries() come in the order of
\* the keys
TopOf(bc, keys, topN) ==
    LET entries == [i \in 1..Len(keys) |-> <<keys[i], bc[keys[i]]>>]
        sorted == Slice(SortEntries(entries, 1, <<>>), topN)
    IN  [i \in 1..Len(sorted) |-> sorted[i][1]]

identifyBottlenecks(a, topN) == TopOf(calculateBetweennessCentrality(a), a.keys, topN)

(***************************************************************************)
(* identifyBridges (Tarjan)                                                *)
(***************************************************************************)
\* the null parent of the DFS root: no node id
NoParent == 0

RECURSIVE dfs(_, _, _, _)
RECURSIVE BridgeScan(_, _, _, _, _)

\* mutant of BridgeScan: the test is low[v] >= disc[u], that of a cut vertex
RECURSIVE BridgeScan_GreaterOrEqual(_, _, _, _, _)
BridgeScan_GreaterOrEqual(a, st, u, parent, i) ==
    IF i > Len(a.nbrs[u]) THEN st
    ELSE LET v == a.nbrs[u][i] IN
         IF v \notin st.visited
         THEN LET s1 == dfs(a, st, v, u)
                  s2 == [s1 EXCEPT !.low[u] = Min(@, s1.low[v])]
                  s3 == IF s2.low[v] >= s2.disc[u]
                        THEN [s2 EXCEPT !.bridges = Append(@, <<u, v>>)]
                        ELSE s2
              IN  BridgeScan_GreaterOrEqual(a, s3, u, parent, i + 1)
         ELSE IF v # parent
              THEN BridgeScan_GreaterOrEqual(a, [st EXCEPT !.low[u] = Min(@, st.disc[v])],
                                             u, parent, i + 1)
              ELSE BridgeScan_GreaterOrEqual(a, st, u, parent, i + 1)

\* mutant of BridgeScan: the edge back to the parent counts as a back edge
RECURSIVE BridgeScan_NoParentCheck(_, _, _, _, _)
BridgeScan_NoParentCheck(a, st, u, parent, i) ==
    IF i > Len(a.nbrs[u]) THEN st
    ELSE LET v == a.nbrs[u][i] IN
         IF v \notin st.visited
         THEN LET s1 == dfs(a, st, v, u)
                  s2 == [s1 EXCEPT !.low[u] = Min(@, s1.low[v])]
                  s3 == IF s2.low[v] > s2.disc[u]
                        THEN [s2 EXCEPT !.bridges = Append(@, <<u, v>>)]
                        ELSE s2
              IN  BridgeScan_NoParentCheck(a, s3, u, parent, i + 1)
         ELSE BridgeScan_NoParentCheck(a, [st EXCEPT !.low[u] = Min(@, st.disc[v])],
                                       u, parent, i + 1)

\* the for loop of dfs(u, parent) over the neighbours of u, from the i-th on
BridgeScan(a, st, u, parent, i) ==
    IF i > Len(a.nbrs[u]) THEN st
    ELSE LET v == a.nbrs[u][i] IN
         IF v \notin st.visited
         THEN LET s1 == dfs(a, st, v, u)
                  s2 == [s1 EXCEPT !.low[u] = Min(@, s1.low[v])]
                  s3 == IF s2.low[v] > s2.disc[u]
                        THEN [s2 EXCEPT !.bridges = Append(@, <<u, v>>)]
                        ELSE s2
              IN  BridgeScan(a, s3, u, parent, i + 1)
         ELSE IF v # parent
              THEN BridgeScan(a, [st EXCEPT !.low[u] = Min(@, st.disc[v])],
                              u, parent, i + 1)
              ELSE BridgeScan(a, st, u, parent, i + 1)

dfs(a, st, u, parent) ==
    LET s1 == [visited |-> st.visited \cup {u},
               disc |-> MapPut(st.disc, u, st.time),
               low |-> MapPut(st.low, u, st.time),
               time |-> st.time + 1,
               bridges |-> st.bridges]
    IN  IF ~Has(a, u) THEN s1 ELSE BridgeScan(a, s1, u, parent, 1)

\* mutant of identifyBridges: a depth-first search from every node that is
\* still unvisited, not from the first node alone
RECURSIVE BridgesFromEach(_, _, _)
BridgesFromEach(a, st, i) ==
    IF i > Len(a.keys) THEN st
    ELSE BridgesFromEach(a,
                         IF a.keys[i] \in st.visited THEN st
                         ELSE dfs(a, st, a.keys[i], NoParent),
                         i + 1)

identifyBridges_EveryComponent(a) ==
    BridgesFromEach(a, [visited |-> {}, disc |-> <<>>, low |-> <<>>, time |-> 0,
                        bridges |-> <<>>], 1).bridges

identifyBridges(a) ==
    IF Len(a.keys) = 0 THEN <<>>
    ELSE dfs(a, [visited |-> {}, disc |-> <<>>, low |-> <<>>, time |-> 0,
                 bridges |-> <<>>],
             a.keys[1], NoParent).bridges

(***************************************************************************)
(* Inputs.  A node list is a list of unique ids; an edge is a pair         *)
(* <<source, target>>.                                                     *)
(***************************************************************************)
NodeLists == {[i \in 1..n |-> i] : n \in 0..MaxNodes}

SeqsUpTo(S, k) == UNION {[1..m -> S] : m \in 0..k}

\* no self-loop, no unordered pair twice, every endpoint in the node list
Clean(nodes, edges) ==
    /\ \A i \in DOMAIN edges :
         /\ edges[i][1] # edges[i][2]
         /\ edges[i][1] \in Range(nodes)
         /\ edges[i][2] \in Range(nodes)
    /\ \A i, j \in DOMAIN edges :
         i # j => {edges[i][1], edges[i][2]} # {edges[j][1], edges[j][2]}

\* clean inputs of up to MaxEdges edges, in every order of the edge list.
\* Each edge is written source < target here: buildAdjacencyList adds the two
\* endpoints to two different sets, so the orientation of a clean edge does
\* not reach the model (claim C8 checks that on every input).  AnyInputs
\* holds both orientations.
CleanInputs ==
    {in \in [nodes : NodeLists,
             edges : SeqsUpTo({p \in Ids \X Ids : p[1] < p[2]}, MaxEdges)] :
        Clean(in.nodes, in.edges)}

\* arbitrary inputs of up to MaxAnyEdges edges: self-loops, repeated edges
\* and endpoints outside the node list included
AnyInputs == [nodes : NodeLists, edges : SeqsUpTo(Ids \X Ids, MaxAnyEdges)]

\* the fixtures of topology-analysis.test.ts
simpleGraph ==
    [nodes |-> <<1, 2, 3, 4>>,
     edges |-> << <<1, 2>>, <<2, 3>>, <<3, 4>>, <<1, 3>> >>]
triangleGraph ==
    [nodes |-> <<1, 2, 3>>,
     edges |-> << <<1, 2>>, <<2, 3>>, <<1, 3>> >>]
starGraph ==
    [nodes |-> <<1, 2, 3, 4, 5>>,
     edges |-> << <<1, 2>>, <<1, 3>>, <<1, 4>>, <<1, 5>> >>]
bridgeGraph ==
    [nodes |-> <<1, 2, 3, 4, 5, 6>>,
     edges |-> << <<1, 2>>, <<2, 3>>, <<1, 3>>,
                  <<4, 5>>, <<5, 6>>, <<4, 6>>,
                  <<3, 4>> >>]
Fixtures == {simpleGraph, triangleGraph, starGraph, bridgeGraph}

\* clean inputs of up to MaxReversedNodes nodes and MaxAnyEdges edges whose
\* node list is in descending order of the ids, so that the insertion order
\* of the keys is not the order of the ids
MaxReversedNodes == 3

ReversedInputs ==
    {in \in [nodes : {[i \in 1..n |-> n + 1 - i] : n \in 0..MaxReversedNodes},
             edges : SeqsUpTo({p \in Ids \X Ids : p[1] < p[2]}, MaxAnyEdges)] :
        Clean(in.nodes, in.edges)}

Inputs == CleanInputs \cup AnyInputs \cup Fixtures \cup ReversedInputs

(***************************************************************************)
(* The state machine.  adj is the adjacency model of the current snapshot, *)
(* last is the most recent call: its name, arguments and result.           *)
(***************************************************************************)
Init ==
    /\ adj = EmptyAdj
    /\ last = [fn |-> "init"]

Idle == last.fn = "idle"

\* the ids a caller may pass: the keys of the model and ids absent from it
Args == Keys(adj) \cup Ids

Build ==
    /\ last.fn = "init"
    /\ \E in \in Inputs :
         /\ adj' = buildAdjacencyList(in.nodes, in.edges)
         /\ last' = [fn |-> "buildAdjacencyList", nodes |-> in.nodes,
                     edges |-> in.edges]

\* the caller drops the last result
Discard ==
    /\ last.fn \notin {"init", "idle"}
    /\ last' = [fn |-> "idle"]
    /\ UNCHANGED adj

CallDegreeDistribution ==
    /\ Idle
    /\ last' = [fn |-> "calculateDegreeDistribution",
                result |-> calculateDegreeDistribution(adj)]
    /\ UNCHANGED adj

CallDegreeCentrality ==
    /\ Idle
    /\ last' = [fn |-> "calculateDegreeCentrality",
                result |-> calculateDegreeCentrality(adj)]
    /\ UNCHANGED adj

CallClusteringCoefficient ==
    /\ Idle
    /\ \E nodeId \in Args :
         last' = [fn |-> "calculateClusteringCoefficient", nodeId |-> nodeId,
                  result |-> calculateClusteringCoefficient(adj, nodeId)]
    /\ UNCHANGED adj

CallGlobalClusteringCoefficient ==
    /\ Idle
    /\ last' = [fn |-> "calculateGlobalClusteringCoefficient",
                result |-> calculateGlobalClusteringCoefficient(adj)]
    /\ UNCHANGED adj

\* mutant of CallShortestPath: the lookup of an absent source leaves an
\* empty neighbour set behind under that key
CallShortestPath_InsertsAbsent ==
    /\ Idle
    /\ \E source \in Args, target \in Args :
         /\ last' = [fn |-> "findShortestPath", source |-> source, target |-> target,
                     result |-> findShortestPath(adj, source, target)]
         /\ adj' = MapSetEmpty(adj, source)

CallShortestPath ==
    /\ Idle
    /\ \E source \in Args, target \in Args :
         last' = [fn |-> "findShortestPath", source |-> source, target |-> target,
                  result |-> findShortestPath(adj, source, target)]
    /\ UNCHANGED adj

CallNetworkDiameter ==
    /\ Idle
    /\ last' = [fn |-> "calculateNetworkDiameter",
                result |-> calculateNetworkDiameter(adj)]
    /\ UNCHANGED adj

CallBetweennessCentrality ==
    /\ Idle
    /\ last' = [fn |-> "calculateBetweennessCentrality",
                result |-> calculateBetweennessCentrality(adj)]
    /\ UNCHANGED adj

\* last keeps the local bc of the call beside its argument and result
CallBottlenecks ==
    /\ Idle
    /\ \E bc \in {calculateBetweennessCentrality(adj)} :
          \E topN \in 0..MaxTopN :
             last' = [fn |-> "identifyBottlenecks", topN |-> topN, bc |-> bc,
                      result |-> TopOf(bc, adj.keys, topN)]
    /\ UNCHANGED adj

CallBridges ==
    /\ Idle
    /\ last' = [fn |-> "identifyBridges", result |-> identifyBridges(adj)]
    /\ UNCHANGED adj

CallNetworkSummary ==
    /\ Idle
    /\ last' = [fn |-> "getNetworkSummary", result |-> getNetworkSummary(adj)]
    /\ UNCHANGED adj

Next ==
    \/ Build
    \/ Discard
    \/ CallDegreeDistribution
    \/ CallDegreeCentrality
    \/ CallClusteringCoefficient
    \/ CallGlobalClusteringCoefficient
    \/ CallShortestPath
    \/ CallNetworkDiameter
    \/ CallBetweennessCentrality
    \/ CallBottlenecks
    \/ CallBridges
    \/ CallNetworkSummary

Spec == Init /\ [][Next]_vars

\* the clustering, betweenness and bridge analyses alone
NextCentrality ==
    \/ Build
    \/ Discard
    \/ CallClusteringCoefficient
    \/ CallGlobalClusteringCoefficient
    \/ CallBetweennessCentrality
    \/ CallBottlenecks
    \/ CallBridges

SpecCentrality == Init /\ [][NextCentrality]_vars

\* the path functions alone
NextPaths ==
    \/ Build
    \/ Discard
    \/ CallShortestPath
    \/ CallNetworkDiameter

SpecPaths == Init /\ [][NextPaths]_vars

\* betweenness centrality alone
NextBetweenness ==
    \/ Build
    \/ Discard
    \/ CallBetweennessCentrality

SpecBetweenness == Init /\ [][NextBetweenness]_vars

\* the degree, summary, bottleneck and bridge reports alone
NextReports ==
    \/ Build
    \/ Discard
    \/ CallDegreeDistribution
    \/ CallDegreeCentrality
    \/ CallBetweennessCentrality
    \/ CallBottlenecks
    \/ CallBridges
    \/ CallNetworkSummary

SpecReports == Init /\ [][NextReports]_vars

(***************************************************************************)
(* exportToGraphML.  A string that is escaped is a sequence of characters; *)
(* a JS value is a record of its type and content; a node is its list of   *)
(* properties <<key, value>> in Object.keys order; a line of the document  *)
(* is the list of the pieces of its template literal.                      *)
(***************************************************************************)
Amp == <<"&", "a", "m", "p", ";">>
Lt == <<"&", "l", "t", ";">>
Gt == <<"&", "g", "t", ";">>
Quot == <<"&", "q", "u", "o", "t", ";">>
Apos == <<"&", "a", "p", "o", "s", ";">>

\* str.replace(/c/g, rep) for a single character c
RECURSIVE ReplaceAll(_, _, _)
ReplaceAll(str, c, rep) ==
    IF str = <<>> THEN <<>>
    ELSE (IF Head(str) = c THEN rep ELSE <<Head(str)>>) \o ReplaceAll(Tail(str), c, rep)

\* mutant of escapeXml: the ampersand is replaced last, not first
escapeXml_AmpLast(str) ==
    ReplaceAll(ReplaceAll(ReplaceAll(ReplaceAll(ReplaceAll(str,
        "<", Lt), ">", Gt), "\"", Quot), "'", Apos), "&", Amp)

escapeXml(str) ==
    ReplaceAll(ReplaceAll(ReplaceAll(ReplaceAll(ReplaceAll(str,
        "&", Amp), "<", Lt), ">", Gt), "\"", Quot), "'", Apos)

\* JS values
JsUndefined == [type |-> "undefined", num |-> Zero, bool |-> FALSE, str |-> <<>>]
JsNull == [type |-> "null", num |-> Zero, bool |-> FALSE, str |-> <<>>]
JsNumber(q) == [type |-> "number", num |-> q, bool |-> FALSE, str |-> <<>>]
JsBoolean(b) == [type |-> "boolean", num |-> Zero, bool |-> b, str |-> <<>>]
JsString(s) == [type |-> "string", num |-> Zero, bool |-> FALSE, str |-> s]

DigitChars == <<"0", "1", "2", "3", "4", "5", "6", "7", "8", "9">>

\* the decimal digits of a natural number
RECURSIVE Digits(_)
Digits(n) ==
    IF n < 10 THEN <<DigitChars[n + 1]>>
    ELSE Digits(n \div 10) \o <<DigitChars[(n % 10) + 1]>>

\* Number.isInteger(value)
IsInteger(q) == q[2] = 1

\* String(value) of a number: an integer, or a number of halves
NumberToString(q) ==
    (IF q[1] < 0 THEN <<"-">> ELSE <<>>)
        \o Digits(Abs(q[1]) \div q[2])
        \o (IF IsInteger(q) THEN <<>> ELSE <<".", "5">>)

\* String(value)
String(value) ==
    CASE value.type = "number" -> NumberToString(value.num)
      [] value.type = "boolean" ->
            IF value.bool THEN <<"t", "r", "u", "e">> ELSE <<"f", "a", "l", "s", "e">>
      [] value.type = "string" -> value.str
      [] value.type = "null" -> <<"n", "u", "l", "l">>
      [] OTHER -> <<"u", "n", "d", "e", "f", "i", "n", "e", "d">>

\* the property name 'id'
IdKey == <<"i", "d">>

\* Object.keys(node)
ObjectKeys(node) == [i \in 1..Len(node) |-> node[i][1]]

\* node[attr]: undefined when the node has no such property
Get(node, attr) ==
    IF \E i \in 1..Len(node) : node[i][1] = attr
    THEN node[CHOOSE i \in 1..Len(node) : node[i][1] = attr][2]
    ELSE JsUndefined

\* the pieces of a template literal: markup, an interpolated string, a number
Lit(s) == [kind |-> "lit", lit |-> s, text |-> <<>>, num |-> 0]
Text(s) == [kind |-> "text", lit |-> "", text |-> s, num |-> 0]
Num(n) == [kind |-> "num", lit |-> "", text |-> <<>>, num |-> n]

\* the inner loop over Object.keys(node)
RECURSIVE CollectKeys(_, _, _)
CollectKeys(keys, i, nodeAttrs) ==
    IF i > Len(keys) THEN nodeAttrs
    ELSE CollectKeys(keys, i + 1,
                     IF keys[i] # IdKey THEN SetAdd(nodeAttrs, keys[i]) ELSE nodeAttrs)

\* the loop over the nodes that collects the attribute names
RECURSIVE CollectAttrs(_, _, _)
CollectAttrs(nodes, i, nodeAttrs) ==
    IF i > Len(nodes) THEN nodeAttrs
    ELSE CollectAttrs(nodes, i + 1, CollectKeys(ObjectKeys(nodes[i]), 1, nodeAttrs))

RECURSIVE inferGraphMLType(_, _, _)
inferGraphMLType(nodes, attr, i) ==
    IF i > Len(nodes) THEN "string"
    ELSE LET value == Get(nodes[i], attr)
         IN  IF value.type # "undefined" /\ value.type # "null"
                  /\ value.type = "number"
             THEN (IF IsInteger(value.num) THEN "int" ELSE "double")
             ELSE IF value.type # "undefined" /\ value.type # "null"
                       /\ value.type = "boolean"
             THEN "boolean"
             ELSE inferGraphMLType(nodes, attr, i + 1)

Header ==
    << <<Lit("<?xml version=\"1.0\" encoding=\"UTF-8\"?>")>>,
       <<Lit("<graphml xmlns=\"http://graphml.graphdrawing.org/xmlns\"")>>,
       <<Lit("  xmlns:xsi=\"http://www.w3.org/2001/XMLSchema-instance\"")>>,
       <<Lit("  xsi:schemaLocation=\"http://graphml.graphdrawing.org/xmlns")>>,
       <<Lit("    http://graphml.graphdrawing.org/xmlns/1.0/graphml.xsd\">")>> >>

KeyLine(nodes, attr) ==
    <<Lit("  <key id=\""), Text(escapeXml(attr)),
      Lit("\" for=\"node\" attr.name=\""), Text(escapeXml(attr)),
      Lit("\" attr.type=\""), Lit(inferGraphMLType(nodes, attr, 1)), Lit("\"/>")>>

\* the loop that declares the attribute keys
KeyLines(nodes, nodeAttrs) ==
    [i \in 1..Len(nodeAttrs) |-> KeyLine(nodes, nodeAttrs[i])]

GraphOpen == <<Lit("  <graph id=\"G\" edgedefault=\"undirected\">")>>

\* mutant of DataLines: a data element for every declared attribute
RECURSIVE DataLines_NoNullCheck(_, _, _)
DataLines_NoNullCheck(node, nodeAttrs, i) ==
    IF i > Len(nodeAttrs) THEN <<>>
    ELSE <<<<Lit("      <data key=\""), Text(escapeXml(nodeAttrs[i])), Lit("\">"),
             Text(escapeXml(String(Get(node, nodeAttrs[i])))), Lit("</data>")>>>>
         \o DataLines_NoNullCheck(node, nodeAttrs, i + 1)

\* the data lines of one node: the inner loop over nodeAttrs
RECURSIVE DataLines(_, _, _)
DataLines(node, nodeAttrs, i) ==
    IF i > Len(nodeAttrs) THEN <<>>
    ELSE LET attr == nodeAttrs[i]
             value == Get(node, attr)
         IN  (IF value.type # "undefined" /\ value.type # "null"
              THEN <<<<Lit("      <data key=\""), Text(escapeXml(attr)), Lit("\">"),
                       Text(escapeXml(String(value))), Lit("</data>")>>>>
              ELSE <<>>)
             \o DataLines(node, nodeAttrs, i + 1)

\* the loop over the nodes
RECURSIVE NodeLines(_, _, _)
NodeLines(nodes, nodeAttrs, i) ==
    IF i > Len(nodes) THEN <<>>
    ELSE <<<<Lit("    <node id=\""), Text(escapeXml(Get(nodes[i], IdKey).str)),
             Lit("\">")>>>>
         \o DataLines(nodes[i], nodeAttrs, 1)
         \o <<<<Lit("    </node>")>>>>
         \o NodeLines(nodes, nodeAttrs, i + 1)

\* mutant of EdgeLines: edgeId starts at 1
EdgeLines_FromOne(edges) ==
    [i \in 1..Len(edges) |->
        <<Lit("    <edge id=\"e"), Num(i), Lit("\" source=\""),
          Text(escapeXml(edges[i][1])), Lit("\" target=\""),
          Text(escapeXml(edges[i][2])), Lit("\"/>")>>]

\* the loop over the edges; edgeId counts from 0
EdgeLines(edges) ==
    [i \in 1..Len(edges) |->
        <<Lit("    <edge id=\"e"), Num(i - 1), Lit("\" source=\""),
          Text(escapeXml(edges[i][1])), Lit("\" target=\""),
          Text(escapeXml(edges[i][2])), Lit("\"/>")>>]

GraphClose == <<Lit("  </graph>")>>
GraphmlClose == <<Lit("</graphml>")>>

\* the lines of the document, which the code joins by newlines
exportToGraphML(nodes, edges) ==
    LET nodeAttrs == CollectAttrs(nodes, 1, <<>>)
    IN  Header \o KeyLines(nodes, nodeAttrs) \o <<GraphOpen>>
            \o NodeLines(nodes, nodeAttrs, 1) \o EdgeLines(edges)
            \o <<GraphClose, GraphmlClose>>

(***************************************************************************)
(* Inputs of exportToGraphML: strings over the escaped characters in every *)
(* position; nodes whose attributes vary in presence, type and order;      *)
(* edge lists over ids that need not be nodes.                             *)
(***************************************************************************)
XmlChars == {"&", "<", ">", "\"", "'", "a", ";"}

\* the label of the escaping test, and strings that are entities already
SpecialLabel ==
    <<"N", "o", "d", "e", " ", "<", "A", ">", " ", "&", " ",
      "\"", "s", "p", "e", "c", "i", "a", "l", "\"">>

Strings == SeqsUpTo(XmlChars, MaxStrLen) \cup {SpecialLabel, Amp, Lt \o Gt, Quot \o Apos}

AttrNames == {<<"x">>, <<"&", "<">>}

\* one node and one edge that carry the string in every position
EscapeInputs ==
    {[nodes |-> << <<<<IdKey, JsString(s)>>, <<t, JsString(s)>>>> >>,
      edges |-> << <<s, t>> >>] : s \in Strings, t \in AttrNames}

NodeIdAt(i) == <<"n">> \o Digits(i)

XValues == {JsUndefined, JsNull, JsNumber(<<5, 1>>), JsNumber(<<3, 2>>),
            JsBoolean(TRUE), JsString(<<"s">>)}
YValues == {JsString(<<"t">>)}

\* the properties of a node beside its id: x, y or both, in either order
PropLists ==
    {<<>>}
        \cup {<< <<<<"x">>, v>> >> : v \in XValues}
        \cup {<< <<<<"y">>, w>> >> : w \in YValues}
        \cup {<< <<<<"x">>, v>>, <<<<"y">>, w>> >> : v \in XValues, w \in YValues}
        \cup {<< <<<<"y">>, w>>, <<<<"x">>, v>> >> :
                 v \in {JsNull, JsNumber(<<5, 1>>)}, w \in YValues}

\* the i-th node: its id first, or last behind a property
NodeShapes(i) ==
    {<< <<IdKey, JsString(NodeIdAt(i))>> >> \o p : p \in PropLists}
        \cup {<< <<<<"x">>, JsString(<<"s">>)>>, <<IdKey, JsString(NodeIdAt(i))>> >>}

RECURSIVE XmlNodeLists(_)
XmlNodeLists(n) ==
    IF n = 0 THEN {<<>>}
    ELSE {Append(ns, s) : ns \in XmlNodeLists(n - 1), s \in NodeShapes(n)}

AttrInputs ==
    {[nodes |-> ns, edges |-> <<>>] :
        ns \in UNION {XmlNodeLists(n) : n \in 0..MaxXmlNodes}}

EdgeEnds == {NodeIdAt(1), <<"<">>}

EdgeInputs ==
    {[nodes |-> [i \in 1..n |-> << <<IdKey, JsString(NodeIdAt(i))>> >>], edges |-> es] :
        n \in 0..MaxXmlNodes, es \in SeqsUpTo(EdgeEnds \X EdgeEnds, MaxXmlEdges)}

XmlInputs == EscapeInputs \cup AttrInputs \cup EdgeInputs

ExportGraphML ==
    /\ last.fn = "init"
    /\ \E in \in XmlInputs :
         last' = [fn |-> "exportToGraphML", nodes |-> in.nodes, edges |-> in.edges,
                  result |-> exportToGraphML(in.nodes, in.edges)]
    /\ UNCHANGED adj

NextGraphML == ExportGraphML

SpecGraphML == Init /\ [][NextGraphML]_vars

(***************************************************************************)
(* The traversals, one iteration of their while loop (one step of the      *)
(* recursion of dfs) at a time.  last holds the locals of the running      *)
(* function: pc is "while" or "dfs" while it runs and "return" when it has *)
(* returned; enqueued lists every node pushed to the queue, entered every  *)
(* node dfs was called on, in order.                                       *)
(***************************************************************************)
\* the snapshots the traversals are run on: the fixtures and the clean
\* inputs of up to MaxReversedNodes nodes, the empty graph, single nodes,
\* isolated nodes and disconnected graphs among them
SnapshotInputs == ReversedInputs \cup Fixtures

BuildSnapshot ==
    /\ last.fn = "init"
    /\ \E in \in SnapshotInputs :
         /\ adj' = buildAdjacencyList(in.nodes, in.edges)
         /\ last' = [fn |-> "buildAdjacencyList", nodes |-> in.nodes,
                     edges |-> in.edges]

Built == last.fn = "buildAdjacencyList"

\* the entries pushed to the queue by a scan that turned before into after
Pushed(before, after) == SubSeq(after, Len(before) + 1, Len(after))

StartBfsDistances ==
    /\ Built
    /\ \E source \in Keys(adj) :
         last' = [fn |-> "bfsDistances", pc |-> "while", source |-> source,
                  st |-> [visited |-> {source},
                          distances |-> [k \in Keys(adj) |->
                                            IF k = source THEN 0 ELSE Infinity],
                          queue |-> <<source>>],
                  enqueued |-> <<source>>]
    /\ UNCHANGED adj

\* mutant of StepBfsDistances: the head of the queue is not removed
StepBfsDistances_NoShift ==
    /\ last.fn = "bfsDistances" /\ last.pc = "while"
    /\ IF last.st.queue = <<>>
       THEN last' = [last EXCEPT !.pc = "return"]
       ELSE LET current == Head(last.st.queue)
                rest == last.st
                next == IF ~Has(adj, current) THEN rest
                        ELSE DistScan(adj.nbrs[current], 1,
                                      last.st.distances[current], rest)
            IN  last' = [last EXCEPT !.st = next,
                                     !.enqueued = @ \o Pushed(rest.queue, next.queue)]
    /\ UNCHANGED adj

StepBfsDistances ==
    /\ last.fn = "bfsDistances" /\ last.pc = "while"
    /\ IF last.st.queue = <<>>
       THEN last' = [last EXCEPT !.pc = "return"]
       ELSE LET current == Head(last.st.queue)
                rest == [last.st EXCEPT !.queue = Tail(@)]
                next == IF ~Has(adj, current) THEN rest
                        ELSE DistScan(adj.nbrs[current], 1,
                                      last.st.distances[current], rest)
            IN  last' = [last EXCEPT !.st = next,
                                     !.enqueued = @ \o Pushed(rest.queue, next.queue)]
    /\ UNCHANGED adj

StartIsGraphConnected ==
    /\ Built
    /\ IF Len(adj.keys) = 0
       THEN last' = [fn |-> "isGraphConnected", pc |-> "return",
                     st |-> [visited |-> {}, queue |-> <<>>],
                     enqueued |-> <<>>]
       ELSE last' = [fn |-> "isGraphConnected", pc |-> "while",
                     st |-> [visited |-> {adj.keys[1]}, queue |-> <<adj.keys[1]>>],
                     enqueued |-> <<adj.keys[1]>>]
    /\ UNCHANGED adj

StepIsGraphConnected ==
    /\ last.fn = "isGraphConnected" /\ last.pc = "while"
    /\ IF last.st.queue = <<>>
       THEN last' = [last EXCEPT !.pc = "return"]
       ELSE LET current == Head(last.st.queue)
                rest == [last.st EXCEPT !.queue = Tail(@)]
                next == IF Has(adj, current) THEN ConnScan(adj.nbrs[current], 1, rest)
                        ELSE rest
            IN  last' = [last EXCEPT !.st = next,
                                     !.enqueued = @ \o Pushed(rest.queue, next.queue)]
    /\ UNCHANGED adj

\* the last nodes of the paths pushed to the queue
PushedEnds(before, after) ==
    [k \in 1..(Len(after) - Len(before)) |->
        after[Len(before) + k][Len(after[Len(before) + k])]]

StartFindShortestPath ==
    /\ Built
    /\ \E source \in Args, target \in Args :
         IF source = target
         THEN last' = [fn |-> "findShortestPath", pc |-> "return",
                       source |-> source, target |-> target,
                       visited |-> {}, queue |-> <<>>, enqueued |-> <<>>,
                       result |-> <<source>>]
         ELSE IF ~Has(adj, source) \/ ~Has(adj, target)
         THEN last' = [fn |-> "findShortestPath", pc |-> "return",
                       source |-> source, target |-> target,
                       visited |-> {}, queue |-> <<>>, enqueued |-> <<>>,
                       result |-> Null]
         ELSE last' = [fn |-> "findShortestPath", pc |-> "while",
                       source |-> source, target |-> target,
                       visited |-> {source}, queue |-> <<<<source>>>>,
                       enqueued |-> <<source>>, result |-> Null]
    /\ UNCHANGED adj

StepFindShortestPath ==
    /\ last.fn = "findShortestPath" /\ last.pc = "while"
    /\ IF last.queue = <<>>
       THEN last' = [last EXCEPT !.pc = "return", !.result = Null]
       ELSE LET path == Head(last.queue)
                current == path[Len(path)]
                rest == Tail(last.queue)
            IN  IF ~Has(adj, current) THEN last' = [last EXCEPT !.queue = rest]
                ELSE LET r == PathScan(adj.nbrs[current], 1, last.target, path,
                                       last.visited, rest)
                     IN  IF r.done
                         THEN last' = [last EXCEPT !.pc = "return", !.result = r.path,
                                                   !.queue = r.queue]
                         ELSE last' = [last EXCEPT
                                          !.visited = r.visited, !.queue = r.queue,
                                          !.enqueued = @ \o PushedEnds(rest, r.queue)]
    /\ UNCHANGED adj

\* one pass of the loop over the sources of calculateBetweennessCentrality
StartSingleSource ==
    /\ Built
    /\ \E source \in Keys(adj) :
         last' = [fn |-> "calculateBetweennessCentrality", pc |-> "while",
                  source |-> source,
                  st |-> [stack |-> <<>>,
                          predecessors |-> [k \in Keys(adj) |-> <<>>],
                          sigma |-> [k \in Keys(adj) |-> IF k = source THEN 1 ELSE 0],
                          dist |-> [k \in Keys(adj) |-> IF k = source THEN 0 ELSE -1],
                          queue |-> <<source>>],
                  enqueued |-> <<source>>]
    /\ UNCHANGED adj

StepSingleSource ==
    /\ last.fn = "calculateBetweennessCentrality" /\ last.pc = "while"
    /\ IF last.st.queue = <<>>
       THEN last' = [last EXCEPT !.pc = "return"]
       ELSE LET v == Head(last.st.queue)
                popped == [last.st EXCEPT !.queue = Tail(@), !.stack = Append(@, v)]
                next == IF ~Has(adj, v) THEN popped
                        ELSE BrandesScan(adj.nbrs[v], 1, v, popped)
            IN  last' = [last EXCEPT !.st = next,
                                     !.enqueued = @ \o Pushed(popped.queue, next.queue)]
    /\ UNCHANGED adj

\* the first four statements of dfs
dfsEnter(st, u) ==
    [visited |-> st.visited \cup {u},
     disc |-> MapPut(st.disc, u, st.time),
     low |-> MapPut(st.low, u, st.time),
     time |-> st.time + 1,
     bridges |-> st.bridges]

\* a frame of the recursion is the node u, its parent and the place i of
\* the for loop in the neighbours of u
StartIdentifyBridges ==
    /\ Built
    /\ IF Len(adj.keys) = 0
       THEN last' = [fn |-> "identifyBridges", pc |-> "return",
                     st |-> [visited |-> {}, disc |-> <<>>, low |-> <<>>, time |-> 0,
                             bridges |-> <<>>],
                     frames |-> <<>>, entered |-> <<>>]
       ELSE last' = [fn |-> "identifyBridges", pc |-> "dfs",
                     st |-> dfsEnter([visited |-> {}, disc |-> <<>>, low |-> <<>>,
                                      time |-> 0, bridges |-> <<>>], adj.keys[1]),
                     frames |-> <<[u |-> adj.keys[1], parent |-> NoParent, i |-> 1]>>,
                     entered |-> <<adj.keys[1]>>]
    /\ UNCHANGED adj

StepIdentifyBridges ==
    /\ last.fn = "identifyBridges" /\ last.pc = "dfs"
    /\ LET n == Len(last.frames)
           top == last.frames[n]
           u == top.u
           neighbors == IF Has(adj, u) THEN adj.nbrs[u] ELSE <<>>
           advanced == [last.frames EXCEPT ![n].i = @ + 1]
       IN  IF top.i > Len(neighbors)
           THEN \* dfs(u, parent) returns
                IF n = 1
                THEN last' = [last EXCEPT !.pc = "return", !.frames = <<>>]
                ELSE LET caller == last.frames[n - 1]
                         s2 == [last.st EXCEPT
                                   !.low[caller.u] = Min(@, last.st.low[u])]
                         s3 == IF s2.low[u] > s2.disc[caller.u]
                               THEN [s2 EXCEPT !.bridges = Append(@, <<caller.u, u>>)]
                               ELSE s2
                     IN  last' = [last EXCEPT
                                     !.st = s3,
                                     !.frames = [SubSeq(last.frames, 1, n - 1)
                                                    EXCEPT ![n - 1].i = @ + 1]]
           ELSE LET v == neighbors[top.i] IN
                IF v \notin last.st.visited
                THEN last' = [last EXCEPT
                                 !.st = dfsEnter(last.st, v),
                                 !.frames = Append(@, [u |-> v, parent |-> u, i |-> 1]),
                                 !.entered = Append(@, v)]
                ELSE IF v # top.parent
                THEN last' = [last EXCEPT
                                 !.st.low[u] = Min(@, last.st.disc[v]),
                                 !.frames = advanced]
                ELSE last' = [last EXCEPT !.frames = advanced]
    /\ UNCHANGED adj

\* an iteration of whichever loop is running
StepTraversal ==
    \/ StepBfsDistances
    \/ StepIsGraphConnected
    \/ StepFindShortestPath
    \/ StepSingleSource
    \/ StepIdentifyBridges

NextTraversal ==
    \/ BuildSnapshot
    \/ StartBfsDistances
    \/ StartIsGraphConnected
    \/ StartFindShortestPath
    \/ StartSingleSource
    \/ StartIdentifyBridges
    \/ StepBfsDistances
    \/ StepIsGraphConnected
    \/ StepFindShortestPath
    \/ StepSingleSource
    \/ StepIdentifyBridges

\* the functions are synchronous: a loop that can take an iteration takes it
SpecTraversal == Init /\ [][NextTraversal]_vars /\ WF_vars(StepTraversal)

(***************************************************************************)
(* TopologyAnalysisPanel: the analysis memo.  A node of the dashboard is   *)
(* its nodeId and its peersList.  A nodeId is a string: the id k stands    *)
(* for the text "a", "a-a", "a-a-a", ... of k letters, so that the edge    *)
(* id `${a}-${b}` is compared as the text it is.                           *)
(***************************************************************************)
MaxPanelNodes == 3
MaxPeers == 2

\* the text of a nodeId
RECURSIVE IdText(_)
IdText(id) == IF id <= 1 THEN <<"a">> ELSE IdText(id - 1) \o <<"-", "a">>

\* the UTF-16 code unit of a character of a nodeId
CharCode(c) == IF c = "-" THEN 45 ELSE 97

\* the default comparison of Array.prototype.sort: by code units, a proper
\* prefix first
TextLess(s, t) ==
    \/ \E i \in 1..Min(Len(s), Len(t)) :
          /\ \A j \in 1..(i - 1) : s[j] = t[j]
          /\ CharCode(s[i]) < CharCode(t[i])
    \/ Len(s) < Len(t) /\ \A j \in 1..Len(s) : s[j] = t[j]

\* [node.nodeId, peerId].sort()
SortPair(nodeId, peerId) ==
    IF TextLess(IdText(peerId), IdText(nodeId)) THEN <<peerId, nodeId>>
    ELSE <<nodeId, peerId>>

\* the template literal `${a}-${b}`
EdgeIdOf(a, b) == IdText(a) \o <<"-">> \o IdText(b)

\* the loop over node.peersList
RECURSIVE PeerLoop(_, _, _, _, _)
PeerLoop(nodeIds, nodeId, peersList, j, graphEdges) ==
    IF j > Len(peersList) THEN graphEdges
    ELSE LET peerId == peersList[j]
             ab == SortPair(nodeId, peerId)
             edgeId == EdgeIdOf(ab[1], ab[2])
         IN  IF /\ peerId \in nodeIds
                /\ ~\E i \in 1..Len(graphEdges) :
                       EdgeIdOf(graphEdges[i][1], graphEdges[i][2]) = edgeId
             THEN PeerLoop(nodeIds, nodeId, peersList, j + 1, Append(graphEdges, ab))
             ELSE PeerLoop(nodeIds, nodeId, peersList, j + 1, graphEdges)

\* the loop over nodes
RECURSIVE PanelEdges(_, _, _, _)
PanelEdges(nodes, i, nodeIds, graphEdges) ==
    IF i > Len(nodes) THEN graphEdges
    ELSE PanelEdges(nodes, i + 1, nodeIds,
                    PeerLoop(nodeIds, nodes[i].nodeId, nodes[i].peersList, 1, graphEdges))

\* the value of the memo for the nodes of useNodes
analysis(nodes) ==
    IF Len(nodes) = 0 THEN [returned |-> "null"]
    ELSE LET graphNodes == [i \in 1..Len(nodes) |-> nodes[i].nodeId]
             nodeIds == Range(graphNodes)
             graphEdges == PanelEdges(nodes, 1, nodeIds, <<>>)
             a == buildAdjacencyList(graphNodes, graphEdges)
         IN  [returned |-> "analysis",
              summary |-> getNetworkSummary(a),
              distribution |-> calculateDegreeDistribution(a),
              bottlenecks |-> identifyBottlenecks(a, 5),
              bridges |-> identifyBridges(a),
              graphNodes |-> graphNodes,
              graphEdges |-> graphEdges]

\* the peers a node may report: the ids of the nodes and one id that is no
\* node of the list
PeerIds == 1..(MaxPanelNodes + 1)

\* the node lists of useNodes: up to MaxPanelNodes nodes of different ids,
\* each with up to MaxPeers reported peers, itself and repetitions included
PanelInputs ==
    UNION {{[i \in 1..Len(ids) |-> [nodeId |-> ids[i], peersList |-> peers[i]]] :
               peers \in [1..Len(ids) -> SeqsUpTo(PeerIds, MaxPeers)]} :
           ids \in {s \in SeqsUpTo(1..MaxPanelNodes, MaxPanelNodes) :
                       \A i, j \in 1..Len(s) : i < j => s[i] < s[j]}}

\* the panel renders: the memo is computed from the nodes
TopologyAnalysisPanel ==
    /\ last.fn = "init"
    /\ \E nodes \in PanelInputs :
          \E memo \in {analysis(nodes)} :
             /\ last' = [fn |-> "TopologyAnalysisPanel", nodes |-> nodes,
                         analysis |-> memo]
             /\ adj' = IF memo.returned = "null" THEN adj
                       ELSE buildAdjacencyList(memo.graphNodes, memo.graphEdges)

NextPanel == TopologyAnalysisPanel

SpecPanel == Init /\ [][NextPanel]_vars

(***************************************************************************)
(* Reference definitions, set-theoretic and independent of the traversals. *)
(***************************************************************************)
\* every neighbour is a key: the edges referred only to listed nodes
Closed(a) == \A k \in Keys(a) : Nbrs(a, k) \subseteq Keys(a)

\* a model of clean input: closed and without self-loops
CleanAdj(a) == Closed(a) /\ \A k \in Keys(a) : k \notin Nbrs(a, k)

Out(a, x) == IF Has(a, x) THEN Nbrs(a, x) ELSE {}

\* the nodes reachable from the set S
RECURSIVE Reach(_, _)
Reach(a, S) ==
    LET N == S \cup UNION {Out(a, x) : x \in S}
    IN  IF N = S THEN S ELSE Reach(a, N)

\* the nodes reachable from S when the edge e = {u, v} is removed
RECURSIVE ReachWithout(_, _, _)
ReachWithout(a, S, e) ==
    LET N == S \cup UNION {{y \in Out(a, x) : {x, y} # e} : x \in S}
    IN  IF N = S THEN S ELSE ReachWithout(a, N, e)

Connected(a) == \A s \in Keys(a) : Keys(a) \subseteq Reach(a, {s})

EdgeSet(a) == {e \in {{u, v} : u \in Keys(a), v \in Keys(a)} :
                 /\ Cardinality(e) = 2
                 /\ \E u \in e : e \ {u} \subseteq Nbrs(a, u)}

\* the edges whose removal disconnects their endpoints
CutEdges(a) == {e \in EdgeSet(a) :
                  \E u \in e : ~(e \subseteq ReachWithout(a, {u}, e))}

\* the least number of edges on a walk to t from the set B of the nodes
\* within k steps of the start; Infinity when there is no walk
RECURSIVE DistFrom(_, _, _, _)
DistFrom(a, B, t, k) ==
    IF t \in B THEN k
    ELSE LET N == B \cup UNION {Out(a, x) : x \in B}
         IN  IF N = B THEN Infinity ELSE DistFrom(a, N, t, k + 1)

RefDist(a, s, t) == DistFrom(a, {s}, t, 0)

\* the shortest walks to t among the extensions of the walks W, all of one
\* length; t is reachable from their common start
RECURSIVE ShortestFrom(_, _, _)
ShortestFrom(a, W, t) ==
    LET hit == {w \in W : w[Len(w)] = t}
    IN  IF hit # {} THEN hit
        ELSE ShortestFrom(a, UNION {{Append(w, x) : x \in Out(a, w[Len(w)])} : w \in W}, t)

\* the shortest paths from s to t, for t reachable from s
ShortestPaths(a, s, t) == ShortestFrom(a, {<<s>>}, t)

\* the unordered pairs {s, t} of distinct nodes with t reachable from s,
\* each written once, and the shortest paths between them
ReachablePairs(a) ==
    {p \in Keys(a) \X Keys(a) : p[1] < p[2] /\ p[2] \in Reach(a, {p[1]})}

AllShortestPaths(a) ==
    [p \in ReachablePairs(a) |-> ShortestPaths(a, p[1], p[2])]

\* the sum of the rationals f[x] over x in S
RECURSIVE RSum(_, _)
RSum(f, S) ==
    IF S = {} THEN Zero
    ELSE LET x == CHOOSE y \in S : TRUE IN RAdd(f[x], RSum(f, S \ {x}))

\* betweenness of v by its definition: over the unordered pairs {s, t} of
\* distinct nodes other than v with t reachable from s, the fraction of the
\* shortest s-t paths (sp[<<s, t>>]) that pass through v
RefBetweenness(sp, v) ==
    LET pairs == {p \in DOMAIN sp : p[1] # v /\ p[2] # v}
    IN  RSum([p \in pairs |->
                 Frac(Cardinality({w \in sp[p] : v \in Range(w)}),
                      Cardinality(sp[p]))],
             pairs)

\* the unordered pairs of neighbours of v that are adjacent to each other
AdjacentNeighbourPairs(a, v) ==
    {e \in {{x, y} : x \in Nbrs(a, v), y \in Nbrs(a, v)} :
        /\ Cardinality(e) = 2
        /\ \E x \in e : e \ {x} \subseteq Out(a, x)}

\* the number of (node, neighbour) pairs: the sum of all degrees
DegreeSum(a) == Cardinality({p \in Keys(a) \X UNION {Nbrs(a, k) : k \in Keys(a)} :
                               p[2] \in Nbrs(a, p[1])})

IsComplete(a) == \A u \in Keys(a) : Nbrs(a, u) = Keys(a) \ {u}

IsStarHub(a, h) ==
    /\ Nbrs(a, h) = Keys(a) \ {h}
    /\ \A x \in Keys(a) \ {h} : Nbrs(a, x) = {h}

\* the edge list with the i-th edge submitted the other way round
Flip(edges, i) == [edges EXCEPT ![i] = <<edges[i][2], edges[i][1]>>]

UnorderedPairs(r) == {{r[i][1], r[i][2]} : i \in DOMAIN r}

(***************************************************************************)
(* Claims.                                                                 *)
(***************************************************************************)

\* C1: on a connected graph built from clean input, identifyBridges returns
\* exactly the cut-edges, each of them once.
C1_BridgesAreCutEdges ==
    (last.fn = "identifyBridges" /\ CleanAdj(adj) /\ Connected(adj)) =>
        /\ UnorderedPairs(last.result) = CutEdges(adj)
        /\ Cardinality(UnorderedPairs(last.result)) = Len(last.result)

\* a connected graph with a cycle and a bridge: some edges are returned,
\* some are not
C1_Witness ==
    /\ last.fn = "identifyBridges" /\ CleanAdj(adj) /\ Connected(adj)
    /\ last.result # <<>>
    /\ Len(last.result) < Cardinality(EdgeSet(adj))

\* C2: on a graph built from clean input, calculateBetweennessCentrality
\* gives every node its betweenness by definition, each unordered pair
\* counted once.
C2_BetweennessIsReference ==
    (last.fn = "calculateBetweennessCentrality" /\ CleanAdj(adj)) =>
        LET sp == AllShortestPaths(adj)
        IN  /\ DOMAIN last.result = Keys(adj)
            /\ \A v \in Keys(adj) : last.result[v] = RefBetweenness(sp, v)

\* a graph where two shortest paths tie, so that a node carries half a pair
C2_Witness ==
    /\ last.fn = "calculateBetweennessCentrality" /\ CleanAdj(adj)
    /\ \E v \in Keys(adj) : last.result[v][2] = 2

\* C3: for source and target in the graph, findShortestPath returns [source]
\* when they are equal, null exactly when target is unreachable, and
\* otherwise a path from source to target of the least number of edges.
C3_ShortestPath ==
    (last.fn = "findShortestPath" /\ last.source \in Keys(adj)
                                  /\ last.target \in Keys(adj)) =>
        LET r == last.result IN
        IF last.source = last.target THEN r = <<last.source>>
        ELSE /\ (r = Null) <=> (RefDist(adj, last.source, last.target) = Infinity)
             /\ r # Null =>
                  /\ r[1] = last.source
                  /\ r[Len(r)] = last.target
                  /\ \A i \in 1..(Len(r) - 1) : r[i + 1] \in Out(adj, r[i])
                  /\ Len(r) - 1 = RefDist(adj, last.source, last.target)

\* a path of three edges
C3_Witness ==
    /\ last.fn = "findShortestPath"
    /\ last.source \in Keys(adj) /\ last.target \in Keys(adj)
    /\ Len(last.result) = 4

\* C4: calculateNetworkDiameter is 0 for at most one node, Infinity when
\* some node is unreachable from another, and otherwise the greatest
\* shortest-path distance over all ordered pairs of nodes.
C4_Diameter ==
    (last.fn = "calculateNetworkDiameter" /\ Closed(adj)) =>
        IF Len(adj.keys) <= 1 THEN last.result = 0
        ELSE LET d == [p \in Keys(adj) \X Keys(adj) |-> RefDist(adj, p[1], p[2])]
             IN  IF \E p \in DOMAIN d : d[p] = Infinity
                 THEN last.result = Infinity
                 ELSE /\ \E p \in DOMAIN d : last.result = d[p]
                      /\ \A p \in DOMAIN d : last.result >= d[p]

\* a connected graph whose first node is not an end of a longest path
C4_Witness ==
    /\ last.fn = "calculateNetworkDiameter" /\ Closed(adj)
    /\ Len(adj.keys) >= 3
    /\ last.result # Infinity
    /\ \A t \in Keys(adj) : RefDist(adj, adj.keys[1], t) < last.result

\* C5: in every getNetworkSummary result, diameter is Infinity exactly when
\* isConnected is false.
C5_DiameterAgreesWithConnected ==
    (last.fn = "getNetworkSummary" /\ Closed(adj)) =>
        ((last.result.diameter = Infinity) <=> ~last.result.isConnected)

\* a disconnected graph whose first node has a neighbour
C5_Witness ==
    /\ last.fn = "getNetworkSummary" /\ Closed(adj)
    /\ Len(adj.keys) >= 3
    /\ Size(adj, adj.keys[1]) >= 1
    /\ ~last.result.isConnected
    /\ last.result.diameter = Infinity

\* C6: getNetworkSummary reports nodeCount = number of nodes, edgeCount =
\* (sum of degrees)/2 and, for nodeCount > 0, avgDegree = (sum of
\* degrees)/nodeCount; for clean input edgeCount is the number of edges
\* submitted.
C6_SummaryCounts ==
    /\ last.fn = "getNetworkSummary" =>
         /\ last.result.nodeCount = Cardinality(Keys(adj))
         /\ last.result.edgeCount = Frac(DegreeSum(adj), 2)
         /\ last.result.nodeCount > 0 =>
              last.result.avgDegree = Frac(DegreeSum(adj), last.result.nodeCount)
    \* for clean input the two reference counts, which every later summary
    \* of this model reports, are the numbers of edges and nodes submitted
    /\ (last.fn = "buildAdjacencyList" /\ Clean(last.nodes, last.edges)) =>
         /\ Frac(DegreeSum(adj), 2) = <<Len(last.edges), 1>>
         /\ Cardinality(Keys(adj)) = Len(last.nodes)

\* a summary whose average degree is not a whole number
C6_Witness ==
    /\ last.fn = "getNetworkSummary"
    /\ last.result.nodeCount >= 3
    /\ last.result.edgeCount[1] >= 2
    /\ last.result.avgDegree[2] # 1

\* C7: the keys of buildAdjacencyList(nodes, edges) are exactly the node
\* ids, in list order; a node no edge touches maps to the empty set; the
\* edges add and remove no key.
C7_KeysAreNodes ==
    last.fn = "buildAdjacencyList" =>
        /\ adj.keys = last.nodes
        /\ DOMAIN adj.nbrs = Range(last.nodes)
        /\ \A k \in Range(last.nodes) :
              (\A i \in DOMAIN last.edges : k \notin Range(last.edges[i]))
                 => adj.nbrs[k] = <<>>
        /\ adj.keys = buildAdjacencyList(last.nodes, <<>>).keys

\* an input with an isolated node and an edge that names an unlisted node
C7_Witness ==
    /\ last.fn = "buildAdjacencyList"
    /\ \E k \in Range(last.nodes) : adj.nbrs[k] = <<>>
    /\ \E i \in DOMAIN last.edges :
          /\ last.edges[i][1] \in Range(last.nodes)
          /\ last.edges[i][2] \notin Range(last.nodes)

\* C8: for clean input the neighbours of a are exactly the nodes it shares
\* an edge with; the model is symmetric, every neighbour is a key, and
\* submitting an edge the other way round gives the same model.
C8_NeighboursAreEdges ==
    (last.fn = "buildAdjacencyList" /\ Clean(last.nodes, last.edges)) =>
        /\ \A k \in Keys(adj) :
              Nbrs(adj, k) = {b \in Range(last.nodes) : \E i \in DOMAIN last.edges :
                                  last.edges[i] \in {<<k, b>>, <<b, k>>}}
        /\ \A k \in Keys(adj) : \A b \in Nbrs(adj, k) :
              b \in Keys(adj) /\ k \in Nbrs(adj, b)
        /\ \A i \in DOMAIN last.edges :
              buildAdjacencyList(last.nodes, Flip(last.edges, i)) = adj

\* a clean input in which a node has two neighbours
C8_Witness ==
    /\ last.fn = "buildAdjacencyList" /\ Clean(last.nodes, last.edges)
    /\ Len(last.edges) >= 3
    /\ \E k \in Keys(adj) : Size(adj, k) >= 2

\* C9: calculateDegreeCentrality gives each of n nodes degree/(n-1), and 0
\* when n <= 1; on a graph built from clean input the value is in [0,1].
C9_DegreeCentrality ==
    last.fn = "calculateDegreeCentrality" =>
        /\ DOMAIN last.result = Keys(adj)
        /\ \A v \in Keys(adj) :
              /\ last.result[v] = IF Len(adj.keys) <= 1 THEN Zero
                                  ELSE Frac(Cardinality(Nbrs(adj, v)),
                                            Len(adj.keys) - 1)
              /\ CleanAdj(adj) =>
                    RLeq(Zero, last.result[v]) /\ RLeq(last.result[v], One)

\* a graph with a node joined to all others and a node joined to some
C9_Witness ==
    /\ last.fn = "calculateDegreeCentrality" /\ CleanAdj(adj)
    /\ Len(adj.keys) >= 3
    /\ \E v \in Keys(adj) : last.result[v] = One
    /\ \E v \in Keys(adj) : RLess(Zero, last.result[v]) /\ RLess(last.result[v], One)

\* C10: calculateClusteringCoefficient is 0 for degree k < 2 and otherwise
\* the number of adjacent unordered pairs of neighbours over k(k-1)/2, in
\* [0,1]: 1 on every node of a complete graph of at least 3 nodes, 0 on the
\* hub of a star.
C10_ClusteringCoefficient ==
    (last.fn = "calculateClusteringCoefficient" /\ last.nodeId \in Keys(adj)
                                                /\ Closed(adj)) =>
        LET v == last.nodeId
            k == Cardinality(Nbrs(adj, v))
        IN  /\ last.result = IF k < 2 THEN Zero
                             ELSE Frac(Cardinality(AdjacentNeighbourPairs(adj, v)),
                                       (k * (k - 1)) \div 2)
            /\ RLeq(Zero, last.result) /\ RLeq(last.result, One)
            /\ (IsComplete(adj) /\ Len(adj.keys) >= 3) => last.result = One
            /\ IsStarHub(adj, v) => last.result = Zero

\* a node of degree 3 with some, not all, of its neighbours adjacent
C10_Witness ==
    /\ last.fn = "calculateClusteringCoefficient" /\ Closed(adj)
    /\ last.nodeId \in Keys(adj)
    /\ Size(adj, last.nodeId) >= 3
    /\ RLess(Zero, last.result) /\ RLess(last.result, One)


\* the local coefficient by its definition
RefClustering(a, v) ==
    LET k == Cardinality(Nbrs(a, v))
    IN  IF k < 2 THEN Zero
        ELSE Frac(Cardinality(AdjacentNeighbourPairs(a, v)), (k * (k - 1)) \div 2)

\* the model with one more node, which has no neighbour
WithIsolatedNode(a, id) ==
    [keys |-> Append(a.keys, id),
     nbrs |-> [k \in DOMAIN a.nbrs \cup {id} |-> IF k = id THEN <<>> ELSE a.nbrs[k]]]

\* an id that is no key and no neighbour in the model
FreshId(a) == 1 + Cardinality(Keys(a) \cup UNION {Nbrs(a, k) : k \in Keys(a)}) + MaxNodes

\* C11: calculateGlobalClusteringCoefficient is the mean of the local
\* coefficients over exactly the nodes of degree >= 2, and 0 when there is
\* none; one more isolated node leaves it unchanged.
C11_GlobalClustering ==
    (last.fn = "calculateGlobalClusteringCoefficient" /\ Closed(adj)) =>
        LET Q == {v \in Keys(adj) : Cardinality(Nbrs(adj, v)) >= 2}
        IN  /\ last.result =
                 IF Q = {} THEN Zero
                 ELSE RMul(RSum([v \in Q |-> RefClustering(adj, v)], Q),
                           Frac(1, Cardinality(Q)))
            /\ calculateGlobalClusteringCoefficient(WithIsolatedNode(adj, FreshId(adj)))
                 = last.result

\* a graph with nodes of degree < 2 beside nodes of degree >= 2 and a mean
\* that is not 0
C11_Witness ==
    /\ last.fn = "calculateGlobalClusteringCoefficient" /\ Closed(adj)
    /\ \E v \in Keys(adj) : Size(adj, v) < 2
    /\ \E v \in Keys(adj) : Size(adj, v) >= 2
    /\ RLess(Zero, last.result)


\* C12: findShortestPath returns null whenever source or target is no key of
\* the adjacency model, for every choice of source and target.
C12_AbsentEndpointIsNull ==
    (last.fn = "findShortestPath"
        /\ (~Has(adj, last.source) \/ ~Has(adj, last.target))) =>
        last.result = Null


\* the connected component of the first key in insertion order
FirstComponent(a) == IF Len(a.keys) = 0 THEN {} ELSE Reach(a, {a.keys[1]})

\* C13: identifyBridges explores only the component of the first node in
\* insertion order: it returns exactly the cut-edges of that component, so
\* every returned pair lies in it and no cut-edge of another component is
\* returned.
C13_BridgesOfFirstComponent ==
    (last.fn = "identifyBridges" /\ CleanAdj(adj)) =>
        LET comp == FirstComponent(adj)
        IN  /\ \A i \in 1..Len(last.result) :
                  last.result[i][1] \in comp /\ last.result[i][2] \in comp
            /\ UnorderedPairs(last.result) = {e \in CutEdges(adj) : e \subseteq comp}
            /\ \A e \in CutEdges(adj) :
                  ~(e \subseteq comp) => e \notin UnorderedPairs(last.result)
            /\ (Len(adj.keys) > 0 /\ Size(adj, adj.keys[1]) = 0) => last.result = <<>>

\* a disconnected graph with a bridge in the first component, which is
\* returned, and a bridge in another one, which is not
C13_Witness ==
    /\ last.fn = "identifyBridges" /\ CleanAdj(adj)
    /\ last.result # <<>>
    /\ \E e \in CutEdges(adj) : ~(e \subseteq FirstComponent(adj))


Entities == {Amp, Lt, Gt, Quot, Apos}

EntityChar(e) ==
    CASE e = Amp -> "&" [] e = Lt -> "<" [] e = Gt -> ">" [] e = Quot -> "\""
      [] OTHER -> "'"

\* the entity e stands at position i of s
EntityAt(s, i, e) ==
    /\ i + Len(e) - 1 <= Len(s)
    /\ SubSeq(s, i, i + Len(e) - 1) = e

\* the text with every entity replaced by its character, in one pass
RECURSIVE Unescape(_)
Unescape(s) ==
    IF s = <<>> THEN <<>>
    ELSE IF \E e \in Entities : EntityAt(s, 1, e)
         THEN LET e == CHOOSE e \in Entities : EntityAt(s, 1, e)
              IN  <<EntityChar(e)>> \o Unescape(SubSeq(s, Len(e) + 1, Len(s)))
         ELSE <<Head(s)>> \o Unescape(Tail(s))

RECURSIVE ConcatAll(_)
ConcatAll(ss) == IF ss = <<>> THEN <<>> ELSE Head(ss) \o ConcatAll(Tail(ss))

IsText(p) == p.kind = "text"

\* the interpolated strings of the document, in order
EmittedTexts(doc) ==
    LET ps == SelectSeq(ConcatAll(doc), IsText) IN [i \in 1..Len(ps) |-> ps[i].text]

\* a value for which a data element is written
Present(value) == value.type \notin {"null", "undefined"}

\* the attribute names: the keys of all nodes other than 'id', each at its
\* first appearance
RefAttrs(nodes) ==
    LET all == ConcatAll([i \in 1..Len(nodes) |-> ObjectKeys(nodes[i])])
        F == {i \in 1..Len(all) : all[i] # IdKey /\ \A j \in 1..(i - 1) : all[j] # all[i]}
    IN  [r \in 1..Cardinality(F) |->
            all[CHOOSE i \in F : Cardinality({j \in F : j <= i}) = r]]

\* the attributes of a node that have a value, in declaration order
PresentAttrs(nodes, node) ==
    LET IsPresent(a) == Present(Get(node, a)) IN SelectSeq(RefAttrs(nodes), IsPresent)

\* the strings the document has to carry, in document order
Originals(nodes, edges) ==
    LET attrs == RefAttrs(nodes)
    IN  ConcatAll([i \in 1..Len(attrs) |-> <<attrs[i], attrs[i]>>])
        \o ConcatAll([n \in 1..Len(nodes) |->
              <<Get(nodes[n], IdKey).str>>
              \o LET pa == PresentAttrs(nodes, nodes[n])
                 IN  ConcatAll([i \in 1..Len(pa) |->
                         <<pa[i], String(Get(nodes[n], pa[i]))>>])])
        \o ConcatAll([j \in 1..Len(edges) |-> <<edges[j][1], edges[j][2]>>])

\* C15: every node id, edge endpoint, attribute name and attribute value in
\* the output of exportToGraphML is escaped: its text has no literal < > " ',
\* every & in it begins one of the five entities, and un-escaping the text
\* gives the original string.
C15_Escaped ==
    (last.fn = "exportToGraphML") =>
        LET texts == EmittedTexts(last.result)
            orig == Originals(last.nodes, last.edges)
        IN  /\ Len(texts) = Len(orig)
            /\ \A i \in 1..Len(texts) :
                  /\ Range(texts[i]) \cap {"<", ">", "\"", "'"} = {}
                  /\ \A k \in 1..Len(texts[i]) :
                        texts[i][k] = "&" => \E e \in Entities : EntityAt(texts[i], k, e)
                  /\ Unescape(texts[i]) = orig[i]

\* a node id that is two entities already: each of its ampersands is
\* escaped once more
C15_Witness ==
    /\ last.fn = "exportToGraphML"
    /\ Len(last.nodes) = 1
    /\ Get(last.nodes[1], IdKey).str = Lt \o Gt
    /\ \E i \in 1..Len(last.result) :
          /\ Len(last.result[i]) = 3
          /\ last.result[i][2].text = Amp \o <<"l", "t", ";">> \o Amp \o <<"g", "t", ";">>


IsKeyLine(line) == line[1] = Lit("  <key id=\"")

\* the key declarations of the document, in order
KeyLinesOf(doc) == SelectSeq(doc, IsKeyLine)

\* the GraphML type of a value
TypeName(value) ==
    CASE value.type = "number" -> IF value.num[2] = 1 THEN "int" ELSE "double"
      [] value.type = "boolean" -> "boolean"
      [] OTHER -> "string"

\* the type of the first value of attr, in node order, that is neither null
\* nor undefined; string when there is none
FirstSeenType(nodes, attr) ==
    LET P == {n \in 1..Len(nodes) : Present(Get(nodes[n], attr))}
    IN  IF P = {} THEN "string"
        ELSE TypeName(Get(nodes[CHOOSE n \in P : \A m \in P : n <= m], attr))

\* C16: the attr.type of every declared attribute is the type of its first
\* non-null value in node-list order (int, double, boolean, else string);
\* values of later nodes never change it.
C16_FirstSeenType ==
    (last.fn = "exportToGraphML") =>
        LET keys == KeyLinesOf(last.result)
        IN  \A r \in 1..Len(keys) :
               keys[r][6].lit = FirstSeenType(last.nodes, Unescape(keys[r][2].text))


\* what a line of the document is, by the markup it begins with
LineKind(line) ==
    CASE line[1].lit = "  <key id=\"" -> "key"
      [] line[1].lit = "  <graph id=\"G\" edgedefault=\"undirected\">" -> "graph"
      [] line[1].lit = "    <node id=\"" -> "node"
      [] line[1].lit = "      <data key=\"" -> "data"
      [] line[1].lit = "    </node>" -> "/node"
      [] line[1].lit = "    <edge id=\"e" -> "edge"
      [] line[1].lit = "  </graph>" -> "/graph"
      [] line[1].lit = "</graphml>" -> "/graphml"
      [] OTHER -> "header"

\* the positions of the lines of one kind
LinesOfKind(doc, kind) == {i \in 1..Len(doc) : LineKind(doc[i]) = kind}

\* the r-th smallest element of a set of positions
NthOf(S, r) == CHOOSE i \in S : Cardinality({j \in S : j <= i}) = r

\* C17: the document of exportToGraphML is, in this order: the header, the
\* key declarations, one graph element with edgedefault="undirected", one
\* node element per input node in input order, one edge element per input
\* edge in input order with ids e0, e1, ..., the closing graph and graphml
\* tags; every node element precedes every edge element, and without nodes
\* and edges there is no node or edge element.
C17_DocumentOrder ==
    (last.fn = "exportToGraphML") =>
        LET doc == last.result
            n == Len(last.nodes)
            m == Len(last.edges)
            K == LinesOfKind(doc, "key")
            k == Cardinality(K)
            N == LinesOfKind(doc, "node")
            E == LinesOfKind(doc, "edge")
            end == Len(doc)
        IN  /\ end >= 8
            /\ SubSeq(doc, 1, 5) = Header
            /\ LinesOfKind(doc, "header") = 1..5
            /\ K = 6..(5 + k)
            /\ LinesOfKind(doc, "graph") = {6 + k}
            /\ Cardinality(N) = n
            /\ Cardinality(LinesOfKind(doc, "/node")) = n
            /\ \A r \in 1..n :
                  LET i == NthOf(N, r)
                  IN  /\ Unescape(doc[i][2].text) = Get(last.nodes[r], IdKey).str
                      /\ \E j \in (i + 1)..end :
                            /\ LineKind(doc[j]) = "/node"
                            /\ \A l \in (i + 1)..(j - 1) : LineKind(doc[l]) = "data"
            /\ \A i \in (7 + k)..(end - 2 - m) :
                  LineKind(doc[i]) \in {"node", "data", "/node"}
            /\ E = (end - 1 - m)..(end - 2)
            /\ \A j \in 1..m :
                  LET line == doc[end - 2 - m + j]
                  IN  /\ line[2] = Num(j - 1)
                      /\ Unescape(line[4].text) = last.edges[j][1]
                      /\ Unescape(line[6].text) = last.edges[j][2]
            /\ \A i \in N \cup LinesOfKind(doc, "data") \cup LinesOfKind(doc, "/node") :
                  \A j \in E : i < j
            /\ LinesOfKind(doc, "/graph") = {end - 1}
            /\ LinesOfKind(doc, "/graphml") = {end}
            /\ (n = 0 /\ m = 0) => (N = {} /\ E = {} /\ end = 8 + k)

\* two nodes and two edges: the edges are e0 and e1, behind both nodes
C17_Witness ==
    /\ last.fn = "exportToGraphML"
    /\ Len(last.nodes) = 2 /\ Len(last.edges) = 2
    /\ last.edges[1] # last.edges[2]
    /\ Cardinality(LinesOfKind(last.result, "edge")) = 2

\* C18: exportToGraphML declares one key per distinct attribute name of the
\* nodes, never for 'id' and never twice, in order of first appearance; a
\* node element has a data child for exactly the declared attributes whose
\* value on the node is neither null nor undefined, so every data key is a
\* declared key.
C18_KeysAndData ==
    (last.fn = "exportToGraphML") =>
        LET doc == last.result
            keys == KeyLinesOf(doc)
            declared == [r \in 1..Len(keys) |-> Unescape(keys[r][2].text)]
            N == LinesOfKind(doc, "node")
        IN  /\ Len(keys) = Len(RefAttrs(last.nodes))
            /\ \A r \in 1..Len(keys) :
                  /\ declared[r] = RefAttrs(last.nodes)[r]
                  /\ declared[r] # IdKey
                  /\ keys[r][4] = keys[r][2]
                  /\ \A q \in 1..Len(keys) : q # r => keys[q][2] # keys[r][2]
            /\ Cardinality(N) = Len(last.nodes)
            /\ \A r \in 1..Len(last.nodes) :
                  LET i == NthOf(N, r)
                      j == CHOOSE j \in (i + 1)..Len(doc) :
                              /\ LineKind(doc[j]) # "data"
                              /\ \A l \in (i + 1)..(j - 1) : LineKind(doc[l]) = "data"
                      pa == PresentAttrs(last.nodes, last.nodes[r])
                  IN  /\ j - i - 1 = Len(pa)
                      /\ \A l \in 1..Len(pa) : Unescape(doc[i + l][2].text) = pa[l]
            /\ \A l \in LinesOfKind(doc, "data") :
                  \E r \in 1..Len(keys) : keys[r][2] = doc[l][2]

\* two attributes declared in the order y, x; a node where one of them is
\* null and a node that lacks one, neither with a data child for it
C18_Witness ==
    /\ last.fn = "exportToGraphML"
    /\ RefAttrs(last.nodes) = << <<"y">>, <<"x">> >>
    /\ \E r \in 1..Len(last.nodes) : Get(last.nodes[r], <<"x">>) = JsNull
    /\ \E r \in 1..Len(last.nodes) : <<"y">> \notin Range(ObjectKeys(last.nodes[r]))
    /\ Cardinality(LinesOfKind(last.result, "data")) = 2


\* the calls the star claim speaks of
StarCalls == {"calculateBetweennessCentrality", "calculateClusteringCoefficient",
              "calculateGlobalClusteringCoefficient"}

\* what the claim says of the star with hub h, for the call last made
StarResults(h) ==
    /\ last.fn = "calculateBetweennessCentrality" =>
          \A s \in Keys(adj) \ {h} :
             last.result[s] = Zero /\ RLess(last.result[s], last.result[h])
    /\ (last.fn = "calculateClusteringCoefficient" /\ last.nodeId = h) =>
          last.result = Zero
    /\ last.fn = "calculateGlobalClusteringCoefficient" => last.result = Zero

\* C19 as stated: in every star graph (a hub adjacent to each of k spokes,
\* no other edge) every spoke's betweenness is 0 and the hub's is strictly
\* greater; the hub's local and the global clustering coefficient are 0.
C19_StarAnyK ==
    (last.fn \in StarCalls) =>
        \A h \in Keys(adj) : IsStarHub(adj, h) => StarResults(h)

\* C19 (amended): the same for every star graph with k = 0 or k >= 2
\* spokes; with one spoke the hub's betweenness is 0 as the spoke's is.
C19_Star ==
    (last.fn \in StarCalls) =>
        \A h \in Keys(adj) :
            (IsStarHub(adj, h) /\ Cardinality(Keys(adj)) # 2) => StarResults(h)

\* a star with three spokes after the betweenness call: the hub carries
\* the three pairs of spokes
C19_Witness ==
    /\ last.fn = "calculateBetweennessCentrality"
    /\ \E h \in Keys(adj) :
          /\ IsStarHub(adj, h)
          /\ Cardinality(Keys(adj)) = 4
          /\ last.result[h] = Frac(3, 1)

\* the graph of the two triangles 1-2-3 and 4-5-6 joined by the edge 3-4
IsTwoTriangles(a) ==
    /\ Keys(a) = 1..6
    /\ EdgeSet(a) = {{1, 2}, {2, 3}, {1, 3}, {4, 5}, {5, 6}, {4, 6}, {3, 4}}
    /\ CleanAdj(a)

\* C20: in the two-triangle graph both ends of the joining edge have
\* strictly higher betweenness than each of the other four nodes, and
\* identifyBottlenecks(adj, 2) returns exactly these two.
C20_TwoTriangles ==
    (last.fn \in {"calculateBetweennessCentrality", "identifyBottlenecks"}
        /\ IsTwoTriangles(adj)) =>
        /\ last.fn = "calculateBetweennessCentrality" =>
              \A v \in {3, 4} : \A u \in {1, 2, 5, 6} :
                 RLess(last.result[u], last.result[v])
        /\ (last.fn = "identifyBottlenecks" /\ last.topN = 2) =>
              /\ Len(last.result) = 2
              /\ Range(last.result) = {3, 4}

\* the two-triangle graph after identifyBottlenecks(adj, 2)
C20_Witness ==
    /\ IsTwoTriangles(adj)
    /\ last.fn = "identifyBottlenecks" /\ last.topN = 2
    /\ Len(last.result) = 2


\* the sum of f over its domain
RECURSIVE SumOver(_, _)
SumOver(f, S) ==
    IF S = {} THEN 0
    ELSE LET x == CHOOSE y \in S : TRUE IN f[x] + SumOver(f, S \ {x})

\* C23: calculateDegreeDistribution maps each degree d to the number of
\* nodes whose neighbour set has size exactly d; it has a key only for the
\* degrees that occur, isolated nodes count under 0, and the counts sum to
\* the number of nodes.
C23_DegreeDistribution ==
    (last.fn = "calculateDegreeDistribution") =>
        LET r == last.result
            degrees == {Cardinality(Nbrs(adj, k)) : k \in Keys(adj)}
        IN  /\ DOMAIN r.count = degrees
            /\ Range(r.keys) = degrees
            /\ Len(r.keys) = Cardinality(degrees)
            /\ \A d \in degrees :
                  /\ r.count[d] = Cardinality({k \in Keys(adj) : Cardinality(Nbrs(adj, k)) = d})
                  /\ r.count[d] >= 1
            /\ SumOver(r.count, DOMAIN r.count) = Len(adj.keys)

\* two isolated nodes beside nodes of two other degrees
C23_Witness ==
    /\ last.fn = "calculateDegreeDistribution"
    /\ 0 \in DOMAIN last.result.count
    /\ last.result.count[0] = 2
    /\ Cardinality(DOMAIN last.result.count) = 3


\* C21: on the empty graph every function returns its sentinel: the summary
\* is all zero with isConnected true; the degree distribution, the degree
\* centrality and the betweenness centrality are empty maps; the bridges
\* and the bottlenecks are empty lists.
C21_EmptyGraph ==
    (adj.keys = <<>> /\ last.fn \notin {"init", "idle", "buildAdjacencyList"}) =>
        /\ last.fn = "getNetworkSummary" =>
              last.result = [nodeCount |-> 0, edgeCount |-> Zero, avgDegree |-> Zero,
                             maxDegree |-> 0, minDegree |-> 0, diameter |-> 0,
                             globalClusteringCoefficient |-> Zero,
                             isConnected |-> TRUE]
        /\ last.fn = "calculateDegreeDistribution" =>
              last.result.keys = <<>> /\ DOMAIN last.result.count = {}
        /\ last.fn \in {"calculateDegreeCentrality", "calculateBetweennessCentrality"} =>
              DOMAIN last.result = {}
        /\ last.fn \in {"identifyBridges", "identifyBottlenecks"} =>
              last.result = <<>>

\* the summary of the empty graph
C21_Witness ==
    /\ adj = EmptyAdj
    /\ last.fn = "getNetworkSummary"
    /\ last.result.nodeCount = 0
    /\ last.result.isConnected


\* the model with the key k moved to the front of the insertion order
RootedAt(a, k) ==
    LET IsOther(x) == x # k
    IN  [keys |-> <<k>> \o SelectSeq(a.keys, IsOther), nbrs |-> a.nbrs]

\* C22: for a graph built from clean input, isConnected of getNetworkSummary
\* is true exactly when every node is reachable from every other node, and
\* the answer is the same whichever node the reachability pass starts from.
C22_IsConnected ==
    (last.fn = "getNetworkSummary" /\ CleanAdj(adj)) =>
        /\ last.result.isConnected <=> Connected(adj)
        /\ \A k \in Keys(adj) :
              isGraphConnected(RootedAt(adj, k)) = last.result.isConnected

\* a disconnected graph whose first and last node lie in components of
\* different sizes
C22_Witness ==
    /\ last.fn = "getNetworkSummary" /\ CleanAdj(adj)
    /\ Len(adj.keys) >= 3
    /\ ~last.result.isConnected
    /\ Cardinality(Reach(adj, {adj.keys[1]}))
          > Cardinality(Reach(adj, {adj.keys[Len(adj.keys)]}))


\* the number of entries of the edge list that touch the node k
Occurrences(edges, k) ==
    Cardinality({i \in 1..Len(edges) : k \in {edges[i][1], edges[i][2]}})

\* an edge list without self-loop over listed nodes, in which some
\* undirected edge occurs more than once
HasRepeatedEdge(nodes, edges) ==
    /\ \A i \in 1..Len(edges) :
          edges[i][1] # edges[i][2] /\ {edges[i][1], edges[i][2]} \subseteq Range(nodes)
    /\ \E i, j \in 1..Len(edges) :
          i < j /\ {edges[i][1], edges[i][2]} = {edges[j][1], edges[j][2]}

\* C24 as stated: when the edge list holds the same undirected edge more
\* than once, the degrees of its ends and the edge count count every
\* occurrence.
C24_DuplicatesCountedTwice ==
    (last.fn = "buildAdjacencyList" /\ HasRepeatedEdge(last.nodes, last.edges)) =>
        /\ \A k \in Keys(adj) : Size(adj, k) = Occurrences(last.edges, k)
        /\ countEdges(adj) = <<Len(last.edges), 1>>

\* C24 (amended): a repeated undirected edge, in either orientation, is
\* collapsed: the degree of a node is the number of its distinct
\* neighbours, and the edge count is the number of distinct undirected
\* edges of the list.
C24_DuplicatesCollapsed ==
    (last.fn = "buildAdjacencyList" /\ HasRepeatedEdge(last.nodes, last.edges)) =>
        LET distinct == {{last.edges[i][1], last.edges[i][2]} : i \in 1..Len(last.edges)}
        IN  /\ \A k \in Keys(adj) :
                  Size(adj, k) = Cardinality({e \in distinct : k \in e})
            /\ countEdges(adj) = <<Cardinality(distinct), 1>>
            /\ getNetworkSummary(adj).edgeCount = <<Cardinality(distinct), 1>>
            /\ Cardinality(distinct) < Len(last.edges)

\* the edge 1-2 submitted as (1, 2) and as (2, 1)
C24_Witness ==
    /\ last.fn = "buildAdjacencyList"
    /\ HasRepeatedEdge(last.nodes, last.edges)
    /\ last.edges = << <<1, 2>>, <<2, 1>> >>
    /\ Size(adj, 1) = 1

\* C25 as stated: for every graph the set of unordered pairs identifyBridges
\* returns is the same whichever node is the DFS root.
C25_RootIndependentAnyGraph ==
    (last.fn = "identifyBridges") =>
        \A k \in Keys(adj) :
            UnorderedPairs(identifyBridges(RootedAt(adj, k))) = UnorderedPairs(last.result)

\* C25 (amended): for every connected graph built from clean input the set
\* of unordered pairs identifyBridges returns is the same whichever node is
\* the DFS root.
C25_RootIndependent ==
    (last.fn = "identifyBridges" /\ CleanAdj(adj) /\ Connected(adj)) =>
        \A k \in Keys(adj) :
            UnorderedPairs(identifyBridges(RootedAt(adj, k))) = UnorderedPairs(last.result)

\* a connected graph with a cycle and a bridge, the roots giving the pairs
\* in different order or orientation
C25_Witness ==
    /\ last.fn = "identifyBridges" /\ CleanAdj(adj) /\ Connected(adj)
    /\ last.result # <<>>
    /\ Len(last.result) < Cardinality(EdgeSet(adj))
    /\ \E k \in Keys(adj) : identifyBridges(RootedAt(adj, k)) # last.result


\* the place of a key in the insertion order of the adjacency list
KeyIndex(a, k) == CHOOSE i \in 1..Len(a.keys) : a.keys[i] = k

\* C26: among nodes of equal betweenness identifyBottlenecks keeps the
\* insertion order of the adjacency list: of two returned nodes with equal
\* scores the earlier key comes first, and a returned node is never a later
\* key than a node of equal score that was left out.
C26_TiesKeepInsertionOrder ==
    (last.fn = "identifyBottlenecks") =>
        LET r == last.result
            bc == last.bc
        IN  /\ \A i, j \in 1..Len(r) :
                  (i < j /\ bc[r[i]] = bc[r[j]]) => KeyIndex(adj, r[i]) < KeyIndex(adj, r[j])
            /\ \A x \in Range(r) : \A y \in Keys(adj) \ Range(r) :
                  (bc[x] = bc[y]) => KeyIndex(adj, x) < KeyIndex(adj, y)

\* two returned nodes tie, a node left out ties with the last returned one,
\* and the keys are not in ascending order of their ids
C26_Witness ==
    /\ last.fn = "identifyBottlenecks"
    /\ Len(last.result) >= 2
    /\ last.bc[last.result[1]] = last.bc[last.result[2]]
    /\ \E y \in Keys(adj) \ Range(last.result) :
          last.bc[y] = last.bc[last.result[Len(last.result)]]
    /\ \E i \in 1..(Len(adj.keys) - 1) : adj.keys[i] > adj.keys[i + 1]


\* the calls of the analysis functions
Analyzers ==
    {"calculateDegreeDistribution", "calculateDegreeCentrality",
     "calculateClusteringCoefficient", "calculateGlobalClusteringCoefficient",
     "findShortestPath", "calculateNetworkDiameter",
     "calculateBetweennessCentrality", "identifyBottlenecks", "identifyBridges",
     "getNetworkSummary"}

C30_SingleSourcePass ==
    (last.fn = "calculateBetweennessCentrality") =>
        \A s \in Keys(adj) :
            LET p == SingleSource(adj, s)
                reached == Keys(adj) \cap Reach(adj, {s})
            IN  /\ p.queue = <<>>
                /\ Range(p.stack) = reached
                /\ Len(p.stack) = Cardinality(reached)
                /\ p.sigma[s] = 1
                /\ \A i, j \in 1..Len(p.stack) :
                      i < j => p.dist[p.stack[i]] <= p.dist[p.stack[j]]
                /\ \A v \in reached :
                      /\ p.dist[v] = RefDist(adj, s, v)
                      /\ p.sigma[v] = Cardinality(ShortestPaths(adj, s, v))
                      /\ p.sigma[v] >= 1
                      /\ Range(p.predecessors[v]) =
                            {u \in Out(adj, v) \cap reached : p.dist[u] + 1 = p.dist[v]}
                      /\ Len(p.predecessors[v]) = Cardinality(Range(p.predecessors[v]))
                /\ \A v \in Keys(adj) \ reached :
                      p.sigma[v] = 0 /\ p.predecessors[v] = <<>>

\* a pass in which some node has two shortest paths from the source and
\* two predecessors, two steps from the source
C30_Witness ==
    /\ last.fn = "calculateBetweennessCentrality"
    /\ \E s \in Keys(adj) :
          LET p == SingleSource(adj, s)
          IN  /\ \E v \in Keys(adj) : p.sigma[v] = 2 /\ Len(p.predecessors[v]) = 2
              /\ \E v \in Keys(adj) : p.dist[v] >= 2


\* C29: the edge list the panel hands to buildAdjacencyList is clean for
\* every list of nodes and reported peers: no unordered pair twice, no
\* self-loop, no endpoint outside the node list.
C29_PanelEdgesClean ==
    (last.fn = "TopologyAnalysisPanel" /\ last.analysis.returned = "analysis") =>
        Clean(last.analysis.graphNodes, last.analysis.graphEdges)


\* the functions that traverse the graph
Traversals ==
    {"bfsDistances", "isGraphConnected", "findShortestPath",
     "calculateBetweennessCentrality", "identifyBridges"}

Running == last.fn \in Traversals /\ "pc" \in DOMAIN last /\ last.pc # "return"

Returned == last.fn \in Traversals /\ "pc" \in DOMAIN last /\ last.pc = "return"

\* the nodes pushed to a queue, or entered by dfs, so far
Touched == IF last.fn = "identifyBridges" THEN last.entered ELSE last.enqueued

\* during a traversal of a clean graph no node is enqueued (entered) twice,
\* and what a traversal returns is the value of the function
TraversalSafe ==
    ((Running \/ Returned) /\ CleanAdj(adj)) =>
        /\ Len(Touched) = Cardinality(Range(Touched))
        /\ Range(Touched) \subseteq Keys(adj)
        /\ (last.fn = "identifyBridges") => last.st.time = Len(last.entered)
        /\ Returned =>
              CASE last.fn = "bfsDistances" ->
                      last.st.distances = bfsDistances(adj, last.source)
                [] last.fn = "isGraphConnected" ->
                      (Cardinality(last.st.visited) = Len(adj.keys)) = isGraphConnected(adj)
                [] last.fn = "findShortestPath" ->
                      last.result = findShortestPath(adj, last.source, last.target)
                [] last.fn = "calculateBetweennessCentrality" ->
                      last.st = SingleSource(adj, last.source)
                [] last.fn = "identifyBridges" ->
                      last.st.bridges = identifyBridges(adj)

\* C28: on every graph built from clean input every traversal that is
\* started returns, with the value of the function, and until then every
\* breadth-first search has enqueued each node at most once and the
\* depth-first search has entered each node at most once.
C28_Terminates == []TraversalSafe /\ (Running ~> Returned)

\* the depth-first search has returned on a disconnected graph, having
\* entered two nodes or more and left out another
C28_Witness ==
    /\ Returned
    /\ CleanAdj(adj) /\ ~Connected(adj)
    /\ last.fn = "identifyBridges"
    /\ Len(last.entered) >= 2 /\ Len(last.entered) < Len(adj.keys)

====
